---------------------------- MODULE Spec2Model ----------------------------
(***************************************************************************)
(* Receiptly backend: receipt submission with fingerprint de-duplication    *)
(* and basic-plan quota (routes/receipts.py), the usage query and the       *)
(* set-plan override (routes/subscription.py), over the Receipt and User    *)
(* tables (models.py).                                                      *)
(***************************************************************************)
EXTENDS Integers, Sequences, FiniteSets, TLC

(***************************************************************************)
(* Bounds of the model.                                                     *)
(***************************************************************************)
\* worker processes serving requests concurrently
NumProcs == 3
\* longest item list of the payloads drawn for canonicalization
MaxItems == 3
\* requests taken in one run of Spec and of SpecEdit
MaxRequests == 2
\* requests taken in one run of SpecQuota
MaxSubmissions == 3
\* requests taken in one run of SpecAuth
MaxAuthRequests == 3
\* requests served one after the other in a run of SpecSerial
MaxSerial == 5

\* routes/receipts.py:17
BASIC_MONTHLY_LIMIT == 8

(***************************************************************************)
(* JSON values.  A value is null, a string, a number or a list; a JSON      *)
(* object is a function from a finite set of keys to values.                *)
(***************************************************************************)
Null == <<"null">>
Str(s) == <<"str", s>>
Num(n) == <<"num", n>>
List(s) == <<"list", s>>

IsNull(v) == v[1] = "null"
IsStr(v) == v[1] = "str"
IsNum(v) == v[1] = "num"
IsList(v) == v[1] = "list"

\* dict.get(key): the value, None when the key is absent
Get(d, k) == IF k \in DOMAIN d THEN d[k] ELSE Null

\* dict.get(key, default)
GetDefault(d, k, dflt) == IF k \in DOMAIN d THEN d[k] ELSE dflt

\* Python truthiness of a JSON value: None, "", 0 and [] are falsy
Falsy(v) ==
    \/ IsNull(v)
    \/ IsStr(v) /\ v[2] = ""
    \/ IsNum(v) /\ v[2] = 0
    \/ IsList(v) /\ v[2] = <<>>

\* Python's `v or dflt`
OrElse(v, dflt) == IF Falsy(v) THEN dflt ELSE v

(***************************************************************************)
(* Strings are compared by code point.  The strings that occur as item      *)
(* names are ranked here in that order.                                     *)
(***************************************************************************)
NameOrder == <<"", "Bread", "Milk">>

StrRank(s) == CHOOSE i \in 1..Len(NameOrder) : NameOrder[i] = s

StrLt(a, b) == StrRank(a) < StrRank(b)


\* comparison of two values of one type with `<` (two strings, two numbers)
ValLt(a, b) ==
    CASE IsStr(a) /\ IsStr(b) -> StrLt(a[2], b[2])
      [] IsNum(a) /\ IsNum(b) -> a[2] < b[2]

\* `<` on tuples: the first position where the two differ decides
TupleLt(k1, k2) ==
    IF k1[1] # k2[1] THEN ValLt(k1[1], k2[1])
    ELSE IF k1[2] # k2[2] THEN ValLt(k1[2], k2[2])
    ELSE FALSE

(***************************************************************************)
(* canonicalize_receipt and compute_fingerprint                            *)
(***************************************************************************)
ScalarFields ==
    {"store_category", "store_name", "date", "total", "currency",
     "tax_amount", "total_discount"}

ItemFields == {"name", "quantity", "category", "price", "total", "discount"}

ReduceItemNoDiscount(item) ==
    [f \in ItemFields |-> IF f = "discount" THEN Null ELSE Get(item, f)]

ReduceItemKeepExtra(item) == [f \in ItemFields \cup DOMAIN item |-> Get(item, f)]

\* the six-field dict built for each submitted item
ReduceItem(item) == [f \in ItemFields |-> Get(item, f)]

\* key=lambda x: (x.get("name") or "", x.get("price") or 0)
SortKey(x) == <<OrElse(Get(x, "name"), Str("")), OrElse(Get(x, "price"), Num(0))>>

RECURSIVE InsertUnstable(_, _)
InsertUnstable(x, s) ==
    IF s = <<>> THEN <<x>>
    ELSE IF ~TupleLt(SortKey(Head(s)), SortKey(x)) THEN <<x>> \o s
    ELSE <<Head(s)>> \o InsertUnstable(x, Tail(s))

\* x placed in the sorted list s, behind every element whose key is not greater
RECURSIVE InsertSorted(_, _)
InsertSorted(x, s) ==
    IF s = <<>> THEN <<x>>
    ELSE IF TupleLt(SortKey(x), SortKey(Head(s))) THEN <<x>> \o s
    ELSE <<Head(s)>> \o InsertSorted(x, Tail(s))

\* sorted(list, key=SortKey): ascending and stable
RECURSIVE Sorted(_)
Sorted(s) ==
    IF s = <<>> THEN <<>>
    ELSE InsertSorted(s[Len(s)], Sorted(SubSeq(s, 1, Len(s) - 1)))

\* the two values are of one type, so that `<` between them is defined
SameType(a, b) == (IsStr(a) /\ IsStr(b)) \/ (IsNum(a) /\ IsNum(b))

\* comparing the two keys raises TypeError: the first position where they
\* differ holds a string in one and a number in the other
KeysClash(k1, k2) ==
    IF k1[1] # k2[1] THEN ~SameType(k1[1], k2[1])
    ELSE k1[2] # k2[2] /\ ~SameType(k1[2], k2[2])

\* sorted(list, key=SortKey) raises: two keys clash, and no order of
\* comparisons sorts the list without comparing a clashing pair
SortRaises(s) == \E i, j \in 1..Len(s) : KeysClash(SortKey(s[i]), SortKey(s[j]))

\* data.get("items") or []
ItemsOrEmpty(data) == OrElse(Get(data, "items"), List(<<>>))[2]

canonicalize_receipt(data) ==
    [k \in ScalarFields \cup {"items"} |->
        IF k = "items"
        THEN List(Sorted([i \in 1..Len(ItemsOrEmpty(data)) |->
                             ReduceItem(ItemsOrEmpty(data)[i])]))
        ELSE Get(data, k)]

\* the keys of the canonical receipt and of a canonical item, as
\* json.dumps(sort_keys=True) writes them
ReceiptKeysSorted ==
    <<"currency", "date", "items", "store_category", "store_name",
      "tax_amount", "total", "total_discount">>

ItemKeysSorted == <<"category", "discount", "name", "price", "quantity", "total">>

DumpItem(item) == [i \in 1..Len(ItemKeysSorted) |->
                      <<ItemKeysSorted[i], item[ItemKeysSorted[i]]>>]

\* json.dumps(receipt, sort_keys=True, separators=(',', ':')): the key/value
\* pairs in key order at both levels, each value in its own JSON type
json_dumps(receipt) ==
    [i \in 1..Len(ReceiptKeysSorted) |->
        LET k == ReceiptKeysSorted[i] IN
        IF k = "items"
        THEN <<k, [j \in 1..Len(receipt[k][2]) |-> DumpItem(receipt[k][2][j])]>>
        ELSE <<k, receipt[k]>>]

\* hashlib.sha256(...).hexdigest(): the digest stands for the text it was
\* taken of (no two texts share a digest)
sha256(text) == <<"sha256", text>>

compute_fingerprint(receipt) == sha256(json_dumps(receipt))

(***************************************************************************)
(* Dates.  A date is <<year, month, day>>; the date strings of the payloads *)
(* are listed with what datetime.strptime(s, '%Y-%m-%d').date() makes of    *)
(* them, and any other string raises ValueError.                            *)
(***************************************************************************)
DateOf ==
    ("2024-11-30" :> <<2024, 11, 30>>) @@ ("2024-12-01" :> <<2024, 12, 1>>) @@
    ("2024-12-05" :> <<2024, 12, 5>>) @@ ("2024-12-31" :> <<2024, 12, 31>>) @@
    ("2025-01-01" :> <<2025, 1, 1>>)

\* strptime raises ValueError on the string
BadDateString(s) == s \notin DOMAIN DateOf

strptime(s) == DateOf[s]

DateLt(a, b) ==
    \/ a[1] < b[1]
    \/ a[1] = b[1] /\ a[2] < b[2]
    \/ a[1] = b[1] /\ a[2] = b[2] /\ a[3] < b[3]

DateLe(a, b) == a = b \/ DateLt(a, b)

\* today.replace(day=1)
FirstDay(d) == <<d[1], d[2], 1>>

NextMonthSameYear(d) == IF d[2] = 12 THEN <<d[1], 1, 1>> ELSE <<d[1], d[2] + 1, 1>>

\* the first day of the month after d's, December rolling into January
NextMonth(d) == IF d[2] = 12 THEN <<d[1] + 1, 1, 1>> ELSE <<d[1], d[2] + 1, 1>>

\* the days on which requests are served, in order
Days == << <<2024, 12, 15>>, <<2025, 1, 10>> >>

(***************************************************************************)
(* The payloads clients submit.                                             *)
(***************************************************************************)
Bread == [name |-> Str("Bread"), price |-> Num(3), quantity |-> Num(1), total |-> Num(3)]

Milk == [name |-> Str("Milk"), price |-> Num(2), quantity |-> Num(1), total |-> Num(2)]

\* same name and price as Milk, other total and discount
MilkPromo ==
    [name |-> Str("Milk"), price |-> Num(2), quantity |-> Num(2), total |-> Num(3),
     discount |-> Num(1)]

\* an item whose quantity and total are null
MilkNoQty == [name |-> Str("Milk"), price |-> Num(2), quantity |-> Null, total |-> Null]

ReceiptA == [date |-> Str("2024-12-05"), total |-> Num(5), items |-> List(<<Bread, Milk>>)]

ReceiptAReordered ==
    [date |-> Str("2024-12-05"), total |-> Num(5), items |-> List(<<Milk, Bread>>)]

\* what ReceiptA shows once the price of its first item is edited to 5
ReceiptAEdited ==
    [date |-> Str("2024-12-05"), total |-> Num(7),
     items |-> List(<<[name |-> Str("Bread"), price |-> Num(5), quantity |-> Num(1),
                       total |-> Num(5)], Milk>>)]

ReceiptB ==
    [store_name |-> Str("Lidl"), date |-> Str("2024-11-30"), total |-> Num(4),
     items |-> List(<<MilkNoQty, Bread>>)]

ReceiptC == [date |-> Str("2025-01-01"), total |-> Num(9)]

ReceiptD == [date |-> Str("2024-12-31"), total |-> Num(7)]

ReceiptE == [date |-> Str("2024-12-01"), total |-> Num(6), items |-> List(<<Milk>>)]

ReceiptNoTotal == [date |-> Str("2024-12-05"), items |-> List(<<Bread>>)]

ReceiptBadDate == [date |-> Str("05/12/2024"), total |-> Num(5)]

ReceiptNullDate == [date |-> Null, total |-> Num(5)]

\* an empty JSON object
EmptyBody == <<>>

(***************************************************************************)
(* State: the plan column of the user table, the rows of the receipt table, *)
(* the current UTC date, the request each worker is serving, the number of  *)
(* requests the run still takes and the last response sent.                 *)
(***************************************************************************)
VARIABLES plan, receipts, today, req, budget, last, users

vars == <<plan, receipts, today, req, budget, last, users>>

Users == {1, 2}

\* a user id carried by a valid token whose row is gone
UnknownUser == 3

Plans == {"basic", "pro"}

\* the user ids valid tokens carry
TokenUsers == Users \cup {UnknownUser}

Procs == 1..NumProcs

Idle == [op |-> "none", pc |-> "idle", user_id |-> 0, args |-> <<>>, loc |-> <<>>]

NoResponse == [op |-> "none", user_id |-> 0, args |-> <<>>, status |-> 0, body |-> <<>>]

\* the worker takes the next request: the first idle one does
Free(p) ==
    /\ req[p].pc = "idle"
    /\ \A q \in Procs : q < p => req[q].pc # "idle"
    /\ budget > 0

\* the handler holds on to the request: its first step is done
Begin(p, op, user_id, args, pc, loc) ==
    /\ req' = [req EXCEPT ![p] =
                 [op |-> op, pc |-> pc, user_id |-> user_id, args |-> args, loc |-> loc]]
    /\ budget' = budget - 1
    /\ last' = last

\* the request answered in the handler's first step
Answer(p, op, user_id, args, status, body) ==
    /\ req' = req
    /\ budget' = budget - 1
    /\ last' = [op |-> op, user_id |-> user_id, args |-> args, status |-> status,
                body |-> body]

\* the request in progress answered
Finish(p, status, body) ==
    /\ req' = [req EXCEPT ![p] = Idle]
    /\ budget' = budget
    /\ last' = [op |-> req[p].op, user_id |-> req[p].user_id, args |-> req[p].args,
                status |-> status, body |-> body]

RowsWithAnyUser(rows, user_id, fingerprint) ==
    {r \in rows : r.fingerprint = fingerprint}

\* Receipt rows with this owner and fingerprint
RowsWith(rows, user_id, fingerprint) ==
    {r \in rows : r.user_id = user_id /\ r.fingerprint = fingerprint}

CurrentMonthRowsAfterFirst(rows, user_id, day) ==
    {r \in rows : /\ r.user_id = user_id
                  /\ DateLt(FirstDay(day), r.date)
                  /\ DateLt(r.date, NextMonth(day))}

\* the rows of the user dated in [first day of day's month, first day of the next)
CurrentMonthRows(rows, user_id, day) ==
    {r \in rows : /\ r.user_id = user_id
                  /\ DateLe(FirstDay(day), r.date)
                  /\ DateLt(r.date, NextMonth(day))}

CurrentMonthCount(rows, user_id, day) == Cardinality(CurrentMonthRows(rows, user_id, day))

\* the row add_receipt builds from the payload
NewReceiptCanonical(id, user_id, data, fingerprint) ==
    [id |-> id, user_id |-> user_id,
     store_category |-> Get(data, "store_category"),
     store_name |-> Get(data, "store_name"),
     date |-> strptime(data["date"][2]),
     total |-> Get(data, "total"),
     tax_amount |-> Get(data, "tax_amount"),
     total_discount |-> Get(data, "total_discount"),
     items |-> canonicalize_receipt(data)["items"],
     fingerprint |-> fingerprint]

\* Receipt(user_id=..., items=data.get('items'), fingerprint=fingerprint)
NewReceipt(id, user_id, data, fingerprint) ==
    [id |-> id, user_id |-> user_id,
     store_category |-> Get(data, "store_category"),
     store_name |-> Get(data, "store_name"),
     date |-> strptime(data["date"][2]),
     total |-> Get(data, "total"),
     tax_amount |-> Get(data, "tax_amount"),
     total_discount |-> Get(data, "total_discount"),
     items |-> Get(data, "items"),
     fingerprint |-> fingerprint]

\* the integer primary key of a new row: one more than the largest in the table
NewId(rows) ==
    IF rows = {} THEN 1
    ELSE (CHOOSE i \in {r.id : r \in rows} : \A r \in rows : r.id <= i) + 1

(***************************************************************************)
(* add_receipt: POST /api/receipts                                          *)
(***************************************************************************)
\* no plan restriction check
QuotaUnchecked(user_id) == FALSE

QuotaExceededLoose(user_id) ==
    /\ plan[user_id] = "basic"
    /\ CurrentMonthCount(receipts, user_id, today) > BASIC_MONTHLY_LIMIT

\* the plan restriction check: a basic user with the month's count at the limit
QuotaExceeded(user_id) ==
    /\ plan[user_id] = "basic"
    /\ CurrentMonthCount(receipts, user_id, today) >= BASIC_MONTHLY_LIMIT

\* f'Monthly receipt limit ({BASIC_MONTHLY_LIMIT}) reached for basic plan.
\* Upgrade to add more.': the text with the number formatted into it
QuotaMessage(limit) ==
    <<Str("Monthly receipt limit ("), Num(limit),
      Str(") reached for basic plan. Upgrade to add more.")>>

AddReceiptDuplicateFirst(p, user_id, data) ==
    /\ Free(p)
    /\ UNCHANGED <<plan, receipts, today, users>>
    /\ LET args == [data |-> data] IN
       IF DOMAIN data = {}
       THEN Answer(p, "add_receipt", user_id, args, 400,
                   [error |-> "Request body is empty"])
       ELSE IF user_id \notin DOMAIN plan
       THEN Answer(p, "add_receipt", user_id, args, 404, [error |-> "User not found"])
       ELSE IF RowsWith(receipts, user_id,
                        compute_fingerprint(canonicalize_receipt(data))) # {}
       THEN Answer(p, "add_receipt", user_id, args, 409,
                   [error |-> "Receipt already saved"])
       ELSE IF QuotaExceeded(user_id)
       THEN Answer(p, "add_receipt", user_id, args, 403,
                   [error |-> QuotaMessage(BASIC_MONTHLY_LIMIT)])
       ELSE Begin(p, "add_receipt", user_id, args, "canonicalize", <<>>)

\* body check, user lookup and plan restriction check
AddReceipt(p, user_id, data) ==
    /\ Free(p)
    /\ UNCHANGED <<plan, receipts, today, users>>
    /\ LET args == [data |-> data] IN
       IF DOMAIN data = {}
       THEN Answer(p, "add_receipt", user_id, args, 400,
                   [error |-> "Request body is empty"])
       ELSE IF user_id \notin DOMAIN plan
       THEN Answer(p, "add_receipt", user_id, args, 404, [error |-> "User not found"])
       ELSE IF QuotaExceeded(user_id)
       THEN Answer(p, "add_receipt", user_id, args, 403,
                   [error |-> QuotaMessage(BASIC_MONTHLY_LIMIT)])
       ELSE Begin(p, "add_receipt", user_id, args, "canonicalize", <<>>)

\* canonical form, fingerprint and the duplicate query
AddCanonicalize(p) ==
    /\ req[p].op = "add_receipt" /\ req[p].pc = "canonicalize"
    /\ UNCHANGED <<plan, receipts, today, users>>
    /\ LET canonical == canonicalize_receipt(req[p].args.data)
           fingerprint == compute_fingerprint(canonical)
       IN  IF SortRaises(ItemsOrEmpty(req[p].args.data))
           THEN Finish(p, 500, [message |-> "An unexpected error occurred"])
           ELSE IF RowsWith(receipts, req[p].user_id, fingerprint) # {}
           THEN Finish(p, 409, [error |-> "Receipt already saved"])
           ELSE /\ req' = [req EXCEPT ![p].pc = "persist",
                                      ![p].loc = [canonical |-> canonical,
                                                  fingerprint |-> fingerprint]]
                /\ UNCHANGED <<budget, last>>

InsertReceiptUnconstrained(p, row) ==
    /\ receipts' = receipts \cup {row}
    /\ Finish(p, 201, [message |-> "Receipt saved", id |-> row.id])

\* db.session.add and commit under uix_user_fingerprint: a row with the same
\* owner and fingerprint makes the commit raise, which add_receipt answers
\* with its generic failure
InsertReceipt(p, row) ==
    IF RowsWith(receipts, row.user_id, row.fingerprint) # {}
    THEN /\ receipts' = receipts
         /\ Finish(p, 500, [error |-> "Failed to save receipt"])
    ELSE /\ receipts' = receipts \cup {row}
         /\ Finish(p, 201, [message |-> "Receipt saved", id |-> row.id])

MissingFieldAbsentOnly(data, field) == field \notin DOMAIN data

\* field not in data or data[field] is None
MissingField(data, field) == field \notin DOMAIN data \/ IsNull(data[field])

\* required fields, the new row, commit
AddPersist(p) ==
    /\ req[p].op = "add_receipt" /\ req[p].pc = "persist"
    /\ UNCHANGED <<plan, today, users>>
    /\ LET data == req[p].args.data IN
       IF MissingField(data, "date")
       THEN /\ receipts' = receipts
            /\ Finish(p, 400, [error |-> "Missing required field: date"])
       ELSE IF MissingField(data, "total")
       THEN /\ receipts' = receipts
            /\ Finish(p, 400, [error |-> "Missing required field: total"])
       ELSE IF ~IsStr(data["date"]) \/ BadDateString(data["date"][2])
       THEN /\ receipts' = receipts
            /\ Finish(p, 500, [error |-> "Failed to save receipt"])
       ELSE InsertReceipt(p, NewReceipt(NewId(receipts), req[p].user_id, data,
                                        req[p].loc.fingerprint))

(***************************************************************************)
(* delete_receipt: DELETE /api/receipts/<id>                                *)
(***************************************************************************)
\* query(Receipt).filter_by(id=receipt_id, user_id=user_id)
OwnedRows(rows, receipt_id, user_id) ==
    {r \in rows : r.id = receipt_id /\ r.user_id = user_id}

\* the lookup of the row: 404 when the caller owns no row with this id,
\* otherwise the row is marked for deletion in the session
delete_receipt(p, user_id, receipt_id) ==
    /\ Free(p)
    /\ UNCHANGED <<plan, today, receipts, users>>
    /\ LET args == [receipt_id |-> receipt_id]
           found == OwnedRows(receipts, receipt_id, user_id)
       IN  IF found = {}
           THEN Answer(p, "delete_receipt", user_id, args, 404,
                       [error |-> "Receipt not found or does not belong to user"])
           ELSE \E r \in found :
                   Begin(p, "delete_receipt", user_id, args, "commit", [loaded |-> r])

\* a commit that answers and leaves the row in the table
CommitDeleteKeepsRow(p) ==
    /\ req[p].op = "delete_receipt"
    /\ req[p].pc = "commit"
    /\ UNCHANGED <<plan, today, receipts, users>>
    /\ Finish(p, 200, [message |-> "Receipt deleted"])

\* db.session.commit() of a delete: the DELETE of the row by primary key; a
\* DELETE that matches no row is a warning, and the request is answered 200
CommitDelete(p) ==
    /\ req[p].op = "delete_receipt"
    /\ req[p].pc = "commit"
    /\ UNCHANGED <<plan, today, users>>
    /\ receipts' = {r \in receipts : r.id # req[p].loc.loaded.id}
    /\ Finish(p, 200, [message |-> "Receipt deleted"])

(***************************************************************************)
(* Conversions used by the edit handlers.                                   *)
(***************************************************************************)
\* the strings float() accepts, with their values
FloatOfStr == ("4" :> 4) @@ ("4.0" :> 4) @@ ("0" :> 0) @@ ("-1" :> -1)

\* float(v) raises: ValueError for any other string, TypeError for None
FloatRaises(v) == ~(IsNum(v) \/ (IsStr(v) /\ v[2] \in DOMAIN FloatOfStr))

\* float(v)
FloatOf(v) == IF IsNum(v) THEN v[2] ELSE FloatOfStr[v[2]]

\* str.replace(',', '.')
ReplaceComma(s) == IF s = "4,0" THEN "4.0" ELSE s

\* str.strip()
Strip(s) == IF s = " Aldi " THEN "Aldi" ELSE IF s = "  " THEN "" ELSE s

\* value.split('T')[0] when 'T' occurs in the value
DatePart(s) == IF s = "2024-12-31T10:00:00" THEN "2024-12-31" ELSE s

\* float(i.get('total', 0)) if i.get('total') is not None else 0
ItemTotal(item) == IF IsNull(Get(item, "total")) THEN 0 ELSE FloatOf(item["total"])

\* that conversion raises
ItemTotalRaises(item) == ~IsNull(Get(item, "total")) /\ FloatRaises(item["total"])

RECURSIVE SumTotals(_)
SumTotals(items) ==
    IF items = <<>> THEN 0 ELSE ItemTotal(Head(items)) + SumTotals(Tail(items))

\* an item total float() rejects makes the sum raise
TotalsSummable(items) == \A i \in 1..Len(items) : ~ItemTotalRaises(items[i])

\* item[key] = value
SetKey(item, key, value) ==
    [k \in DOMAIN item \cup {key} |-> IF k = key THEN value ELSE item[k]]

\* the position, from 1, of items[i]: a negative index counts from the end
PyIndex(items, i) == IF i < 0 THEN Len(items) + i + 1 ELSE i + 1

InvalidItemIndexNoLowerBound(row, item_index) ==
    \/ Falsy(row.items)
    \/ ~(-Len(row.items[2]) <= item_index[2] /\ item_index[2] < Len(row.items[2]))

\* not receipt.items or not (0 <= item_index < len(receipt.items))
InvalidItemIndex(row, item_index) ==
    \/ Falsy(row.items)
    \/ ~(0 <= item_index[2] /\ item_index[2] < Len(row.items[2]))

\* the columns of a receipt row an edit may assign
EditedColumns == {"store_category", "store_name", "date", "total", "items"}

\* an UPDATE that also sets the fingerprint to that of the content it leaves
CommitColumnsRefingerprint(cur, loaded, session, touched) ==
    LET row == [f \in DOMAIN cur |->
                   IF (f = "items" /\ touched)
                         \/ (f \in EditedColumns \ {"items"} /\ session[f] # loaded[f])
                   THEN session[f] ELSE cur[f]]
        shown == [store_category |-> row.store_category, store_name |-> row.store_name,
                  date |-> Str(CHOOSE t \in DOMAIN DateOf : DateOf[t] = row.date),
                  total |-> row.total, tax_amount |-> row.tax_amount,
                  total_discount |-> row.total_discount, items |-> row.items]
    IN  [row EXCEPT !.fingerprint = compute_fingerprint(canonicalize_receipt(shown))]

\* the row after the UPDATE the commit emits: it assigns the columns whose
\* value in the session differs from the loaded one, and the item list when
\* it was assigned to (touched); the other columns keep what the table holds
CommitColumns(cur, loaded, session, touched) ==
    [f \in DOMAIN cur |->
        IF (f = "items" /\ touched) \/ (f \in EditedColumns \ {"items"} /\ session[f] # loaded[f])
        THEN session[f] ELSE cur[f]]

\* whether the commit emits an UPDATE at all
Dirty(loaded, session, touched) ==
    touched \/ \E f \in EditedColumns \ {"items"} : session[f] # loaded[f]

\* the receipt as the edit handlers return it
ReceiptBody(row) ==
    [success |-> TRUE,
     receipt |-> [id |-> row.id, store_category |-> row.store_category,
                  store_name |-> row.store_name, date |-> row.date,
                  total |-> row.total, tax_amount |-> row.tax_amount,
                  total_discount |-> row.total_discount, items |-> row.items]]

\* db.session.commit() of an edit: the UPDATE of the row by primary key; when
\* the row is gone the UPDATE matches nothing and the commit raises
CommitEdit(p) ==
    /\ req[p].op \in {"update_item_price", "update_receipt_field"}
    /\ req[p].pc = "commit"
    /\ UNCHANGED <<plan, today, users>>
    /\ LET loaded == req[p].loc.loaded
           session == req[p].loc.session
           touched == req[p].loc.touched
           cur == {r \in receipts : r.id = loaded.id}
       IN  IF ~Dirty(loaded, session, touched)
           THEN /\ receipts' = receipts
                /\ Finish(p, 200, ReceiptBody(session))
           ELSE IF cur = {}
           THEN /\ receipts' = receipts
                /\ Finish(p, 500, [message |-> "An unexpected error occurred"])
           ELSE /\ receipts' = (receipts \ cur) \cup
                                {CommitColumns(r, loaded, session, touched) : r \in cur}
                /\ Finish(p, 200, ReceiptBody(session))

(***************************************************************************)
(* update_item_price: PATCH /api/receipts/<id>/item-price                   *)
(***************************************************************************)
\* float(item.get('quantity', 1)), 1 when that raises
QuantityOrOne(item) ==
    LET q == GetDefault(item, "quantity", Num(1))
    IN  IF FloatRaises(q) THEN 1 ELSE FloatOf(q)

\* new_price with ',' replaced by '.' when it is a string
CommaFixed(new_price) ==
    IF IsStr(new_price) THEN Str(ReplaceComma(new_price[2])) ELSE new_price

\* the new price as a float
ParsePrice(new_price) == FloatOf(CommaFixed(new_price))

\* item['price'] = new_price; item['total'] = new_price * quantity
PricedItem(item, price) ==
    SetKey(SetKey(item, "price", Num(price)), "total", Num(price * QuantityOrOne(item)))

\* the session's receipt once the item at item_index (from 0) is replaced and
\* the total recomputed
WithItem(row, item_index, item) ==
    LET items == [row.items[2] EXCEPT ![PyIndex(row.items[2], item_index)] = item]
    IN  [row EXCEPT !.items = List(items), !.total = Num(SumTotals(items))]

update_item_price(p, user_id, receipt_id, item_index, new_price) ==
    /\ Free(p)
    /\ UNCHANGED <<plan, receipts, today, users>>
    /\ LET args == [receipt_id |-> receipt_id, item_index |-> item_index,
                    new_price |-> new_price]
           op == "update_item_price"
           found == OwnedRows(receipts, receipt_id, user_id)
       IN  IF IsNull(item_index) \/ IsNull(new_price)
           THEN Answer(p, op, user_id, args, 400,
                       [error |-> "Missing item_index or new_price"])
           ELSE IF FloatRaises(CommaFixed(new_price))
           THEN Answer(p, op, user_id, args, 400, [error |-> "Invalid price format"])
           ELSE IF found = {}
           THEN Answer(p, op, user_id, args, 404,
                       [error |-> "Receipt not found or does not belong to user"])
           ELSE LET row == CHOOSE r \in found : TRUE IN
                IF InvalidItemIndex(row, item_index)
                THEN Answer(p, op, user_id, args, 400, [error |-> "Invalid item index"])
                ELSE LET item == PricedItem(row.items[2][PyIndex(row.items[2], item_index[2])],
                                            ParsePrice(new_price))
                         items == [row.items[2] EXCEPT ![PyIndex(row.items[2], item_index[2])] = item]
                     IN  IF ~TotalsSummable(items)
                         THEN Answer(p, op, user_id, args, 500,
                                     [message |-> "An unexpected error occurred"])
                         ELSE Begin(p, op, user_id, args, "commit",
                                    [loaded |-> row,
                                     session |-> WithItem(row, item_index[2], item),
                                     touched |-> TRUE])

(***************************************************************************)
(* update_receipt_field: PATCH /api/receipts/<id>/update-field              *)
(***************************************************************************)
\* not isinstance(value, str) or not value.strip()
BlankOrNotStr(value) == ~IsStr(value) \/ Strip(value[2]) = ""

\* the date edit is rejected: not a string, or strptime raises
BadEditDate(value) == ~IsStr(value) \/ BadDateString(DatePart(value[2]))

\* the date a date edit parses
ParseEditDate(value) == strptime(DatePart(value[2]))

\* float(item.get('price', 0)) if item.get('price') is not None else 0
PriceOrZero(item) == IF IsNull(Get(item, "price")) THEN 0 ELSE FloatOf(item["price"])

PriceRaises(item) == ~IsNull(Get(item, "price")) /\ FloatRaises(item["price"])

\* item['quantity'] = qty; item['total'] = price * qty
QuantifiedItem(item, qty) ==
    SetKey(SetKey(item, "quantity", Num(qty)), "total", Num(PriceOrZero(item) * qty))

\* the value of a store_name, date or store_category edit is rejected
ScalarRejected(field, value) ==
    CASE field = "store_name" -> BlankOrNotStr(value)
      [] field = "date" -> BadEditDate(value)
      [] field = "store_category" -> BlankOrNotStr(value)

\* the session's receipt after an accepted edit of one of the three
EditedScalar(row, field, value) ==
    CASE field = "store_name" -> [row EXCEPT !.store_name = Str(Strip(value[2]))]
      [] field = "date" -> [row EXCEPT !.date = ParseEditDate(value)]
      [] field = "store_category" -> [row EXCEPT !.store_category = Str(Strip(value[2]))]

ScalarError(field) ==
    CASE field = "store_name" -> "Invalid store name"
      [] field = "date" -> "Invalid date format"
      [] field = "store_category" -> "Invalid store category"

\* the error of an edit of an item's name, quantity or category, "" when the
\* value is accepted
ItemEditError(item, item_field, item_value) ==
    CASE item_field = "name" ->
            IF BlankOrNotStr(item_value) THEN "Invalid item name" ELSE ""
      [] item_field = "quantity" ->
            IF FloatRaises(item_value) THEN "Invalid quantity"
            ELSE IF FloatOf(item_value) <= 0 THEN "Quantity must be positive"
            ELSE IF PriceRaises(item) THEN "Invalid quantity"
            ELSE ""
      [] item_field = "category" ->
            IF BlankOrNotStr(item_value) THEN "Invalid category" ELSE ""

\* the item after an accepted edit
EditedItem(item, item_field, item_value) ==
    CASE item_field = "name" -> SetKey(item, "name", Str(Strip(item_value[2])))
      [] item_field = "quantity" -> QuantifiedItem(item, FloatOf(item_value))
      [] item_field = "category" -> SetKey(item, "category", Str(Strip(item_value[2])))

update_receipt_field(p, user_id, receipt_id, field, value, item_index, item_field, item_value) ==
    /\ Free(p)
    /\ UNCHANGED <<plan, receipts, today, users>>
    /\ LET args == [receipt_id |-> receipt_id, field |-> field, value |-> value,
                    item_index |-> item_index, item_field |-> item_field,
                    item_value |-> item_value]
           op == "update_receipt_field"
           found == OwnedRows(receipts, receipt_id, user_id)
       IN  IF found = {}
           THEN Answer(p, op, user_id, args, 404,
                       [error |-> "Receipt not found or does not belong to user"])
           ELSE LET row == CHOOSE r \in found : TRUE IN
                IF field \in {Str("store_name"), Str("date"), Str("store_category")}
                THEN IF ScalarRejected(field[2], value)
                     THEN Answer(p, op, user_id, args, 400,
                                 [error |-> ScalarError(field[2])])
                     ELSE Begin(p, op, user_id, args, "commit",
                                [loaded |-> row,
                                 session |-> EditedScalar(row, field[2], value),
                                 touched |-> FALSE])
                ELSE IF ~IsNull(item_index)
                        /\ item_field \in {Str("name"), Str("quantity"), Str("category")}
                THEN IF InvalidItemIndex(row, item_index)
                     THEN Answer(p, op, user_id, args, 400,
                                 [error |-> "Invalid item index"])
                     ELSE LET old == row.items[2][PyIndex(row.items[2], item_index[2])]
                              error == ItemEditError(old, item_field[2], item_value)
                              item == EditedItem(old, item_field[2], item_value)
                          IN  IF error # ""
                              THEN Answer(p, op, user_id, args, 400, [error |-> error])
                              ELSE IF ~TotalsSummable(
                                        [row.items[2] EXCEPT ![PyIndex(row.items[2], item_index[2])] = item])
                              THEN Answer(p, op, user_id, args, 500,
                                          [message |-> "An unexpected error occurred"])
                              ELSE Begin(p, op, user_id, args, "commit",
                                         [loaded |-> row,
                                          session |-> WithItem(row, item_index[2], item),
                                          touched |-> TRUE])
                ELSE Answer(p, op, user_id, args, 400,
                            [error |-> "Invalid update request"])

(***************************************************************************)
(* get_receipt_count and set_user_plan (routes/subscription.py)             *)
(***************************************************************************)
get_receipt_count(p, user_id) ==
    /\ Free(p)
    /\ UNCHANGED <<plan, receipts, today, users>>
    /\ IF user_id \notin DOMAIN plan
       THEN Answer(p, "get_receipt_count", user_id, <<>>, 404,
                   [message |-> "User not found"])
       ELSE Answer(p, "get_receipt_count", user_id, <<>>, 200,
                   [total_receipt_count |->
                        Num(Cardinality({r \in receipts : r.user_id = user_id})),
                    current_month_receipt_count |->
                        IF plan[user_id] = "basic"
                        THEN Num(CurrentMonthCount(receipts, user_id, today))
                        ELSE Null,
                    user_plan |-> plan[user_id]])

AllowedPlansProOnly == {Str("pro")}

AllowedPlansAny == {Str("basic"), Str("pro"), Str("gold")}

\* allowed_plans = ['basic', 'pro']
allowed_plans == {Str("basic"), Str("pro")}

set_user_plan(p, user_id, data) ==
    /\ Free(p)
    /\ UNCHANGED <<receipts, today, users>>
    /\ LET args == [data |-> data] IN
       IF "plan" \notin DOMAIN data
       THEN /\ plan' = plan
            /\ Answer(p, "set_user_plan", user_id, args, 400, [error |-> "Missing plan"])
       ELSE IF data["plan"] \notin allowed_plans
       THEN /\ plan' = plan
            /\ Answer(p, "set_user_plan", user_id, args, 400, [error |-> "Invalid plan"])
       ELSE IF user_id \notin DOMAIN plan
       THEN /\ plan' = plan
            /\ Answer(p, "set_user_plan", user_id, args, 404, [error |-> "User not found"])
       ELSE /\ plan' = [plan EXCEPT ![user_id] = data["plan"][2]]
            /\ Answer(p, "set_user_plan", user_id, args, 200,
                      [success |-> TRUE, plan |-> data["plan"][2]])

(***************************************************************************)
(* The billing events (routes/subscription.py): the completion of a payment *)
(* and the Stripe webhook.  Of the user row only the plan is kept.           *)
(***************************************************************************)
\* POST /api/subscription/complete-subscription-payment: the plan becomes
\* 'pro' when the payment intent has succeeded
complete_subscription_payment(p, user_id, succeeded) ==
    /\ Free(p)
    /\ UNCHANGED <<receipts, today, users>>
    /\ LET args == [succeeded |-> succeeded]
           op == "complete_subscription_payment"
       IN  IF user_id \notin DOMAIN plan
           THEN /\ plan' = plan
                /\ Answer(p, op, user_id, args, 404, [error |-> "User not found"])
           ELSE IF succeeded
           THEN /\ plan' = [plan EXCEPT ![user_id] = "pro"]
                /\ Answer(p, op, user_id, args, 200,
                          [success |-> TRUE, message |-> "Subscription created successfully"])
           ELSE /\ plan' = plan
                /\ Answer(p, op, user_id, args, 200,
                          [success |-> FALSE, error |-> "Payment status"])

\* the events sent to the webhook: the type, the status of the subscription
\* and whether the subscription object carries current_period_end
WebhookEvents ==
    {<<"customer.subscription.created", "trialing", TRUE>>,
     <<"customer.subscription.created", "active", TRUE>>,
     <<"invoice.payment_succeeded", "active", TRUE>>,
     <<"invoice.payment_succeeded", "active", FALSE>>,
     <<"customer.subscription.deleted", "canceled", TRUE>>,
     <<"customer.subscription.deleted", "canceled", FALSE>>,
     <<"customer.subscription.updated", "active", TRUE>>,
     <<"customer.subscription.updated", "past_due", TRUE>>,
     <<"customer.subscription.trial_will_end", "trialing", TRUE>>,
     <<"invoice.payment_failed", "past_due", TRUE>>}

\* the plan the webhook leaves the user of the event with: the branches of
\* payment_succeeded and deleted read subscription.current_period_end before
\* they commit, and when that raises the assignment of the plan is dropped
PlanAfterEvent(event, old) ==
    CASE event[1] = "customer.subscription.created" ->
            IF event[2] = "trialing" THEN "pro" ELSE old
      [] event[1] = "invoice.payment_succeeded" -> IF event[3] THEN "pro" ELSE old
      [] event[1] = "customer.subscription.deleted" -> IF event[3] THEN "basic" ELSE old
      [] event[1] = "customer.subscription.updated" ->
            IF event[2] = "past_due" THEN "basic" ELSE old
      [] event[1] = "invoice.payment_failed" -> "basic"
      [] OTHER -> old

\* POST /api/subscription/stripe-webhook, for an event whose metadata names
\* user_id: always answered 200
stripe_webhook(p, event, user_id) ==
    /\ Free(p)
    /\ UNCHANGED <<receipts, today, users>>
    /\ plan' = IF user_id \in DOMAIN plan
               THEN [plan EXCEPT ![user_id] = PlanAfterEvent(event, plan[user_id])]
               ELSE plan
    /\ Answer(p, "stripe_webhook", 0, [event |-> event, user_id |-> user_id], 200, <<>>)

(***************************************************************************)
(* The clock: datetime.utcnow().date() moves on to the next of Days.        *)
(***************************************************************************)
AdvanceDay ==
    /\ \E i \in 1..(Len(Days) - 1) : today = Days[i] /\ today' = Days[i + 1]
    /\ UNCHANGED <<plan, receipts, req, budget, last, users>>

(***************************************************************************)
(* The accounts: routes/auth.py.  A user row carries the e-mail, the        *)
(* password hash and email_verified; its plan is plan[id].                  *)
(***************************************************************************)
\* email.strip().lower()
StripLower(s) == IF s = " Ann@X.io" THEN "ann@x.io" ELSE IF s = "  " THEN "" ELSE s

\* generate_password_hash(password, method='pbkdf2:sha256')
generate_password_hash(password) == <<"pbkdf2:sha256", password>>

\* check_password_hash(self.password_hash, password)
check_password(password_hash, password) == password_hash = generate_password_hash(password)

\* len(new_password)
PasswordLen == ("secret1" :> 7) @@ ("hunter2" :> 7) @@ ("abc" :> 3)

\* no exp claim
NoExp == <<>>

\* datetime.utcnow() + timedelta(hours=120), to the day
ExpiresAt(day) == <<day[1], day[2], day[3] + 5>>

\* jwt.encode({'email': ..., 'exp': ...}, key, algorithm='HS256')
jwt_encode(email, exp, key) == [email |-> email, exp |-> exp, key |-> key]

\* jwt.decode raises on a signature of another key only
InvalidOrExpiredNever(token) ==
    IF token.key # "JWT_SECRET" THEN "InvalidTokenError" ELSE ""

\* what jwt.decode(token, JWT_SECRET, algorithms=["HS256"]) raises: a
\* signature of another key is invalid, an exp not after now is expired
jwt_decode_raises(token) ==
    IF token.key # "JWT_SECRET" THEN "InvalidTokenError"
    ELSE IF token.exp # NoExp /\ DateLe(token.exp, today) THEN "ExpiredSignatureError"
    ELSE ""

\* request.args.get('token') when the query has none
NoToken == jwt_encode(Null, NoExp, "none")

\* filter_by(email=email).first(): the ids of the rows with the e-mail
UsersWithEmail(email) == {i \in DOMAIN users : users[i].email = email}

\* the users the receipt routes serve, registered and verified
StoredUsers ==
    [u \in Users |->
        [email |-> IF u = 1 THEN "ann@x.io" ELSE "bob@x.io",
         password_hash |-> generate_password_hash("secret1"),
         email_verified |-> TRUE]]

\* register: POST /api/auth/register, up to the commit.  A null e-mail has
\* no strip(); ValidationError takes no status_code, so the answer to a
\* registered e-mail is the generic 500
register(p, data) ==
    /\ Free(p)
    /\ UNCHANGED <<plan, receipts, today, users>>
    /\ LET args == [data |-> data]
           raw == GetDefault(data, "email", Str(""))
           password == Get(data, "password")
       IN  IF IsNull(raw)
           THEN Answer(p, "register", 0, args, 500,
                       [message |-> "An unexpected error occurred"])
           ELSE IF StripLower(raw[2]) = "" \/ Falsy(password)
           THEN Answer(p, "register", 0, args, 400, [message |-> "", status_code |-> 400])
           ELSE IF UsersWithEmail(StripLower(raw[2])) # {}
           THEN Answer(p, "register", 0, args, 500,
                       [message |-> "An unexpected error occurred"])
           ELSE Begin(p, "register", 0, args, "commit",
                      [email |-> StripLower(raw[2]), password |-> password[2]])

\* db.session.commit() of register: the INSERT, which the unique e-mail
\* column refuses for an e-mail stored meanwhile, then the confirmation mail
RegisterCommit(p) ==
    /\ req[p].op = "register"
    /\ req[p].pc = "commit"
    /\ UNCHANGED <<receipts, today>>
    /\ IF UsersWithEmail(req[p].loc.email) # {}
       THEN /\ UNCHANGED <<plan, users>>
            /\ Finish(p, 500, [message |-> "An unexpected error occurred"])
       ELSE /\ users' = Append(users,
                               [email |-> req[p].loc.email,
                                password_hash |-> generate_password_hash(req[p].loc.password),
                                email_verified |-> FALSE])
            /\ plan' = Append(plan, "basic")
            /\ \E sent \in BOOLEAN :
                  IF sent
                  THEN Finish(p, 200,
                              [message |-> "Registration successful! Please check your email to verify your account."])
                  ELSE Finish(p, 500,
                              [message |-> "Registration successful, but failed to send confirmation email. Please contact support."])

\* login: POST /api/auth/login
login(p, data) ==
    /\ Free(p)
    /\ UNCHANGED <<plan, receipts, today, users>>
    /\ LET args == [data |-> data]
           raw == GetDefault(data, "email", Str(""))
           password == Get(data, "password")
       IN  IF IsNull(raw)
           THEN Answer(p, "login", 0, args, 500,
                       [message |-> "An unexpected error occurred"])
           ELSE IF StripLower(raw[2]) = "" \/ Falsy(password)
           THEN Answer(p, "login", 0, args, 400,
                       [message |-> "Email and password are required"])
           ELSE LET found == UsersWithEmail(StripLower(raw[2])) IN
                IF \E i \in found : check_password(users[i].password_hash, password[2])
                THEN LET i == CHOOSE i \in found : TRUE IN
                     IF ~users[i].email_verified
                     THEN Answer(p, "login", 0, args, 403,
                                 [message |-> "Please verify your email before logging in"])
                     ELSE Answer(p, "login", 0, args, 200,
                                 [token |-> jwt_encode(Str(users[i].email), ExpiresAt(today),
                                                       "JWT_SECRET")])
                ELSE Answer(p, "login", 0, args, 401, [message |-> "Invalid credentials"])

\* confirm_email: GET /api/auth/confirm-email?token=...
confirm_email(p, token) ==
    /\ Free(p)
    /\ UNCHANGED <<plan, receipts, today>>
    /\ LET args == [token |-> token] IN
       IF token = NoToken
       THEN /\ users' = users
            /\ Answer(p, "confirm_email", 0, args, 400, "Error: No token provided")
       ELSE IF jwt_decode_raises(token) = "ExpiredSignatureError"
       THEN /\ users' = users
            /\ Answer(p, "confirm_email", 0, args, 400,
                      "Error: The confirmation link has expired. Please request a new one.")
       ELSE IF jwt_decode_raises(token) # "" \/ IsNull(token.email)
       THEN /\ users' = users
            /\ Answer(p, "confirm_email", 0, args, 400, "Error: Invalid token")
       ELSE IF UsersWithEmail(token.email[2]) = {}
       THEN /\ users' = users
            /\ Answer(p, "confirm_email", 0, args, 404, "Error: User not found")
       ELSE /\ users' = [i \in DOMAIN users |->
                            IF i \in UsersWithEmail(token.email[2])
                            THEN [users[i] EXCEPT !.email_verified = TRUE]
                            ELSE users[i]]
            /\ Answer(p, "confirm_email", 0, args, 200, "Email Verified Successfully!")

\* a handler that answers 404 for an e-mail without account
RequestPasswordResetTelling(p, data) ==
    /\ Free(p)
    /\ UNCHANGED <<plan, receipts, today, users>>
    /\ LET email == Get(data, "email") IN
       IF ~Falsy(email) /\ UsersWithEmail(email[2]) = {}
       THEN Answer(p, "request_password_reset", 0, [data |-> data], 404,
                   [success |-> FALSE])
       ELSE Answer(p, "request_password_reset", 0, [data |-> data], 200,
                   [success |-> TRUE])

\* request_password_reset: POST /api/auth/request-password-reset.  The e-mail
\* is looked up as sent; with a user the reset mail goes out or fails to
request_password_reset(p, data) ==
    /\ Free(p)
    /\ UNCHANGED <<plan, receipts, today, users>>
    /\ LET email == Get(data, "email") IN
       IF Falsy(email)
       THEN Answer(p, "request_password_reset", 0, [data |-> data], 200,
                   [success |-> TRUE])
       ELSE IF UsersWithEmail(email[2]) # {}
       THEN \E sent \in BOOLEAN :
               Answer(p, "request_password_reset", 0, [data |-> data], 200,
                      [success |-> TRUE])
       ELSE Answer(p, "request_password_reset", 0, [data |-> data], 200,
                   [success |-> TRUE])

\* reset_password_web: POST /api/auth/reset-password-web
reset_password_web(p, token, new_password, confirm_password) ==
    /\ Free(p)
    /\ UNCHANGED <<plan, receipts, today>>
    /\ LET args == [token |-> token, new_password |-> new_password,
                    confirm_password |-> confirm_password]
           op == "reset_password_web"
       IN  IF token = NoToken
           THEN users' = users /\ Answer(p, op, 0, args, 400, "Error: No token provided.")
           ELSE IF jwt_decode_raises(token) = "ExpiredSignatureError"
           THEN /\ users' = users
                /\ Answer(p, op, 0, args, 400,
                          "Error: The reset link has expired. Please request a new one.")
           ELSE IF jwt_decode_raises(token) # "" \/ IsNull(token.email)
           THEN users' = users /\ Answer(p, op, 0, args, 400, "Error: Invalid token.")
           ELSE IF UsersWithEmail(token.email[2]) = {}
           THEN users' = users /\ Answer(p, op, 0, args, 404, "Error: User not found.")
           ELSE IF new_password = "" \/ confirm_password = ""
           THEN /\ users' = users
                /\ Answer(p, op, 0, args, 400, "Both password fields are required.")
           ELSE IF new_password # confirm_password
           THEN users' = users /\ Answer(p, op, 0, args, 400, "Passwords do not match.")
           ELSE IF PasswordLen[new_password] < 6
           THEN /\ users' = users
                /\ Answer(p, op, 0, args, 400, "Password must be at least 6 characters.")
           ELSE /\ users' = [i \in DOMAIN users |->
                                IF i \in UsersWithEmail(token.email[2])
                                THEN [users[i] EXCEPT
                                         !.password_hash = generate_password_hash(new_password)]
                                ELSE users[i]]
                /\ Answer(p, op, 0, args, 200, "Password Reset Successful")

(***************************************************************************)
(* Initial tables.  The rows present at the start were stored by earlier    *)
(* submissions: each carries the fingerprint of its payload.                *)
(***************************************************************************)
StoredPayload(k, date_str) == [date |-> Str(date_str), total |-> Num(100 + k)]

StoredRows(user_id, first_id, n, date_str) ==
    {NewReceipt(first_id + k - 1, user_id, StoredPayload(k, date_str),
                compute_fingerprint(canonicalize_receipt(StoredPayload(k, date_str))))
        : k \in 1..n}

\* the date of the initial rows: the first day of the month of Days[1]
StoredDate == "2024-12-01"

\* the row ids from first_id on hold for the payloads, as submitted by user_id
SubmittedRows(user_id, first_id, payloads) ==
    {NewReceipt(first_id + k - 1, user_id, payloads[k],
                compute_fingerprint(canonicalize_receipt(payloads[k])))
        : k \in 1..Len(payloads)}

\* no worker is busy, n requests are to come
InitWorkers(n) ==
    /\ req = [p \in Procs |-> Idle]
    /\ budget = n
    /\ last = NoResponse

(***************************************************************************)
(* Spec: every operation, over tables that start empty or with ReceiptA and *)
(* ReceiptB stored for user 1.                                              *)
(***************************************************************************)
Init ==
    /\ plan \in [Users -> Plans]
    /\ today = Days[1]
    /\ users = StoredUsers
    /\ receipts \in {{}, SubmittedRows(1, 1, <<ReceiptA, ReceiptB>>)}
    /\ InitWorkers(MaxRequests)

\* user and payload of the submissions
AddRequests ==
    (Users \X {ReceiptA, ReceiptAReordered, ReceiptAEdited, ReceiptNoTotal,
               ReceiptNullDate, ReceiptBadDate, EmptyBody})
        \cup {<<UnknownUser, ReceiptA>>}

\* the receipt ids requests name: none, the oldest, the newest
NamedIds == {0, 1, NewId(receipts) - 1}

\* item_index and new_price of the price edits
PriceEdits == {<<Num(0), Num(5)>>, <<Num(2), Num(5)>>}

\* field and value of the store name, date and store category edits
ScalarEdits ==
    {<<Str("store_name"), Str(" Aldi ")>>, <<Str("date"), Str("2024-12-31T10:00:00")>>}

\* item_index, item_field and item_value of the item edits
ItemEdits ==
    {<<Num(0), Str("quantity"), Num(3)>>, <<Num(1), Str("name"), Str(" Aldi ")>>}

PlanRequests ==
    (Users \X {[plan |-> Str("basic")], [plan |-> Str("pro")]})
        \cup {<<UnknownUser, [plan |-> Str("pro")]>>, <<1, [plan |-> Str("gold")]>>,
              <<1, EmptyBody>>}

Next ==
    \/ \E p \in Procs, r \in AddRequests : AddReceipt(p, r[1], r[2])
    \/ \E p \in Procs : AddCanonicalize(p)
    \/ \E p \in Procs : AddPersist(p)
    \/ \E p \in Procs, u \in Users, id \in NamedIds : delete_receipt(p, u, id)
    \/ \E p \in Procs : CommitDelete(p)
    \/ \E p \in Procs, u \in Users, id \in NamedIds, e \in PriceEdits :
          update_item_price(p, u, id, e[1], e[2])
    \/ \E p \in Procs, u \in Users, id \in NamedIds, e \in ScalarEdits :
          update_receipt_field(p, u, id, e[1], e[2], Null, Null, Null)
    \/ \E p \in Procs, u \in Users, id \in NamedIds, e \in ItemEdits :
          update_receipt_field(p, u, id, Null, Null, e[1], e[2], e[3])
    \/ \E p \in Procs : CommitEdit(p)
    \/ \E p \in Procs, u \in TokenUsers : get_receipt_count(p, u)
    \/ \E p \in Procs, r \in PlanRequests : set_user_plan(p, r[1], r[2])
    \/ \E p \in Procs, u \in TokenUsers, ok \in BOOLEAN :
          complete_subscription_payment(p, u, ok)
    \/ \E p \in Procs, e \in WebhookEvents, u \in TokenUsers : stripe_webhook(p, e, u)
    \/ AdvanceDay

Spec == Init /\ [][Next]_vars

(***************************************************************************)
(* SpecLimit: every operation, over tables in which user 1 is one short of  *)
(* the monthly limit or at it.                                              *)
(***************************************************************************)
InitLimit ==
    /\ plan \in [Users -> Plans]
    /\ today = Days[1]
    /\ users = StoredUsers
    /\ \E n \in {BASIC_MONTHLY_LIMIT - 1, BASIC_MONTHLY_LIMIT} :
          receipts = StoredRows(1, 1, n, StoredDate)
    /\ InitWorkers(MaxRequests)

SpecLimit == InitLimit /\ [][Next]_vars

(***************************************************************************)
(* SpecRelease: every operation, over tables in which user 1 is at the      *)
(* monthly limit and the oldest receipt is the one stored for ReceiptA.     *)
(***************************************************************************)
InitRelease ==
    /\ plan \in [Users -> Plans]
    /\ today = Days[1]
    /\ users = StoredUsers
    /\ receipts = SubmittedRows(1, 1, <<ReceiptA>>)
                    \cup StoredRows(1, 2, BASIC_MONTHLY_LIMIT - 1, StoredDate)
    /\ InitWorkers(MaxRequests)

SpecRelease == InitRelease /\ [][Next]_vars

(***************************************************************************)
(* SpecSerial: submissions and deletes of two basic users within one month, *)
(* each request served to its end before the next arrives; user 1 starts    *)
(* one short of the monthly limit or at it, user 2 without receipts.        *)
(***************************************************************************)
InitSerial ==
    /\ plan = [u \in Users |-> "basic"]
    /\ today = Days[1]
    /\ users = StoredUsers
    /\ \E n \in {BASIC_MONTHLY_LIMIT - 1, BASIC_MONTHLY_LIMIT} :
          receipts = StoredRows(1, 1, n, StoredDate)
    /\ InitWorkers(MaxSerial)

\* no request is in progress
Quiet == \A p \in Procs : req[p].pc = "idle"

\* user and payload of the submissions: dated in the month, in the month
\* before (ReceiptB) and in the month after (ReceiptC)
SerialAdds ==
    ({1} \X {ReceiptA, ReceiptB, ReceiptC, ReceiptD, ReceiptE}) \cup {<<2, ReceiptA>>}

NextSerial ==
    \/ Quiet /\ \E p \in Procs, r \in SerialAdds : AddReceipt(p, r[1], r[2])
    \/ \E p \in Procs : AddCanonicalize(p)
    \/ \E p \in Procs : AddPersist(p)
    \/ Quiet /\ \E p \in Procs, u \in Users, id \in NamedIds : delete_receipt(p, u, id)
    \/ \E p \in Procs : CommitDelete(p)

SpecSerial == InitSerial /\ [][NextSerial]_vars

(***************************************************************************)
(* SpecAuth: registrations, logins, confirmations and password resets over  *)
(* a user table that starts empty or with one unverified user.              *)
(***************************************************************************)
InitAuth ==
    /\ today = Days[1]
    /\ users \in {<<>>, <<[email |-> "ann@x.io",
                          password_hash |-> generate_password_hash("secret1"),
                          email_verified |-> FALSE]>>}
    /\ plan = [i \in DOMAIN users |-> "basic"]
    /\ receipts = {}
    /\ InitWorkers(MaxAuthRequests)

\* the bodies of the registrations
RegisterRequests ==
    {[email |-> Str("ann@x.io"), password |-> Str("secret1")],
     [email |-> Str(" Ann@X.io"), password |-> Str("hunter2")],
     [email |-> Str("bob@x.io"), password |-> Str("secret1")],
     [email |-> Str("  "), password |-> Str("secret1")],
     [email |-> Null, password |-> Str("secret1")],
     [email |-> Str("bob@x.io")]}

\* the bodies of the logins
LoginRequests ==
    {[email |-> Str(e), password |-> Str(w)] :
        e \in {"ann@x.io", " Ann@X.io", "bob@x.io"}, w \in {"secret1", "hunter2", ""}}
        \cup {[password |-> Str("secret1")], [email |-> Null, password |-> Str("secret1")]}

\* the tokens presented: of either e-mail or without one, expiring five days
\* after the first day or never, signed with the secret or with another key
PresentedTokens ==
    {jwt_encode(e, x, k) : e \in {Str("ann@x.io"), Str("bob@x.io"), Null},
                           x \in {ExpiresAt(Days[1]), NoExp},
                           k \in {"JWT_SECRET", "another"}}
        \cup {NoToken}

\* the bodies of the password reset requests
ResetRequests ==
    {[email |-> Str("ann@x.io")], [email |-> Str("bob@x.io")],
     [email |-> Str(" Ann@X.io")], [email |-> Null], EmptyBody}

\* new_password and confirm_password of the reset form
NewPasswords == {<<"hunter2", "hunter2">>, <<"hunter2", "secret1">>, <<"abc", "abc">>,
                 <<"", "">>}

NextAuth ==
    \/ \E p \in Procs, d \in RegisterRequests : register(p, d)
    \/ \E p \in Procs : RegisterCommit(p)
    \/ \E p \in Procs, d \in LoginRequests : login(p, d)
    \/ \E p \in Procs, t \in PresentedTokens : confirm_email(p, t)
    \/ \E p \in Procs, d \in ResetRequests : request_password_reset(p, d)
    \/ \E p \in Procs, t \in PresentedTokens, w \in NewPasswords :
          reset_password_web(p, t, w[1], w[2])
    \/ AdvanceDay

SpecAuth == InitAuth /\ [][NextAuth]_vars

(***************************************************************************)
(* SpecQuota: submissions and usage queries over tables in which user 1,    *)
(* on either plan, is one short of the monthly limit or at it, and user 2,  *)
(* on the pro plan, is fifty above it, all rows dated on the first day of   *)
(* the month of the first day served.                                       *)
(***************************************************************************)
InitQuota ==
    /\ plan \in {f \in [Users -> Plans] : f[2] = "pro"}
    /\ today = Days[1]
    /\ users = StoredUsers
    /\ \E n \in {BASIC_MONTHLY_LIMIT - 1, BASIC_MONTHLY_LIMIT} :
          receipts = StoredRows(1, 1, n, StoredDate)
                       \cup StoredRows(2, n + 1, BASIC_MONTHLY_LIMIT + 50, StoredDate)
    /\ InitWorkers(MaxSubmissions)

\* user and payload of the submissions
QuotaRequests ==
    ({1} \X {ReceiptA, ReceiptB, ReceiptC, ReceiptD, ReceiptE}) \cup {<<2, ReceiptA>>}

NextQuota ==
    \/ \E p \in Procs, r \in QuotaRequests : AddReceipt(p, r[1], r[2])
    \/ \E p \in Procs : AddCanonicalize(p)
    \/ \E p \in Procs : AddPersist(p)
    \/ \E p \in Procs, u \in Users : get_receipt_count(p, u)
    \/ AdvanceDay

SpecQuota == InitQuota /\ [][NextQuota]_vars

(***************************************************************************)
(* SpecEdit: edits and deletes of three stored receipts, ReceiptA and       *)
(* ReceiptB of user 1 and ReceiptC, which has no items, of user 2.          *)
(***************************************************************************)
InitEdit ==
    /\ plan = [u \in Users |-> "basic"]
    /\ today = Days[1]
    /\ users = StoredUsers
    /\ receipts = SubmittedRows(1, 1, <<ReceiptA, ReceiptB>>)
                    \cup SubmittedRows(2, 3, <<ReceiptC>>)
    /\ InitWorkers(MaxRequests)

\* the receipt ids the edits name: none, and every stored one
StoredIds == {0} \cup {r.id : r \in receipts}

\* item_index and new_price of the price edits
PriceEditsAll ==
    {<<Num(0), Num(5)>>, <<Num(1), Str("4,0")>>, <<Num(0), Num(2)>>, <<Num(0), Num(0)>>,
     <<Num(2), Num(5)>>, <<Num(-1), Num(5)>>, <<Null, Num(5)>>, <<Num(0), Str("abc")>>}

\* field and value of the store name, date and store category edits
ScalarEditsAll ==
    {<<Str("store_name"), Str(" Aldi ")>>, <<Str("store_name"), Str("  ")>>,
     <<Str("date"), Str("2024-12-31T10:00:00")>>, <<Str("date"), Str("31.12.2024")>>,
     <<Str("store_category"), Num(5)>>}

\* item_index, item_field and item_value of the item edits
ItemEditsAll ==
    {<<Num(0), Str("name"), Str(" Aldi ")>>, <<Num(0), Str("quantity"), Num(3)>>,
     <<Num(1), Str("quantity"), Str("4")>>, <<Num(1), Str("quantity"), Num(1)>>,
     <<Num(0), Str("quantity"), Num(0)>>, <<Num(0), Str("quantity"), Str("4,0")>>,
     <<Num(1), Str("category"), Null>>, <<Num(2), Str("name"), Str("Milk")>>,
     <<Num(0), Str("price"), Num(5)>>, <<Null, Str("name"), Str("Milk")>>,
     <<Num(-1), Str("category"), Str("Dairy")>>}

NextEdit ==
    \/ \E p \in Procs, u \in Users, id \in StoredIds, e \in PriceEditsAll :
          update_item_price(p, u, id, e[1], e[2])
    \/ \E p \in Procs, u \in Users, id \in StoredIds, e \in ScalarEditsAll :
          update_receipt_field(p, u, id, e[1], e[2], Null, Null, Null)
    \/ \E p \in Procs, u \in Users, id \in StoredIds, e \in ItemEditsAll :
          update_receipt_field(p, u, id, Null, Null, e[1], e[2], e[3])
    \/ \E p \in Procs : CommitEdit(p)
    \/ \E p \in Procs, u \in Users, id \in StoredIds : delete_receipt(p, u, id)
    \/ \E p \in Procs : CommitDelete(p)

SpecEdit == InitEdit /\ [][NextEdit]_vars

(***************************************************************************)
(* SpecReuse: submissions, price edits and deletes of both users over a     *)
(* table that holds one receipt of user 1, the row with the highest id.     *)
(***************************************************************************)
InitReuse ==
    /\ plan \in [Users -> Plans]
    /\ today = Days[1]
    /\ users = StoredUsers
    /\ receipts = SubmittedRows(1, 1, <<ReceiptA>>)
    /\ InitWorkers(MaxSubmissions)

ReuseAdds == {<<1, ReceiptA>>, <<2, ReceiptE>>}

NextReuse ==
    \/ \E p \in Procs, r \in ReuseAdds : AddReceipt(p, r[1], r[2])
    \/ \E p \in Procs : AddCanonicalize(p)
    \/ \E p \in Procs : AddPersist(p)
    \/ \E p \in Procs, u \in Users, id \in NamedIds : delete_receipt(p, u, id)
    \/ \E p \in Procs : CommitDelete(p)
    \/ \E p \in Procs, u \in Users, id \in NamedIds :
          update_item_price(p, u, id, Num(0), Num(5))
    \/ \E p \in Procs : CommitEdit(p)

SpecReuse == InitReuse /\ [][NextReuse]_vars

(***************************************************************************)
(* SpecCanon: two submissions of user 1 that have passed the plan check,    *)
(* the second a variation of the first: its items in another order, or one  *)
(* scalar field or one field of one item changed.                           *)
(***************************************************************************)
\* an item without name and price
Unnamed == [quantity |-> Num(1), total |-> Num(2)]

ItemPool == {Bread, Milk, MilkPromo, MilkNoQty, Unnamed}

ItemLists == UNION {[1..n -> ItemPool] : n \in 0..MaxItems}

CanonPayloads ==
    {[store_name |-> Str("Lidl"), date |-> Str("2024-12-05"), total |-> Num(5),
      items |-> List(items)] : items \in ItemLists}

Bijections(S) == {f \in [S -> S] : \A x, y \in S : f[x] = f[y] => x = y}

\* the payload with its items in every order
Reorderings(data) ==
    LET items == data["items"][2] IN
    {SetKey(data, "items", List([i \in 1..Len(items) |-> items[f[i]]]))
        : f \in Bijections(1..Len(items))}

\* a value other than v
OtherValue(field, v) ==
    CASE field = "name" -> IF v = Str("Milk") THEN Str("Bread") ELSE Str("Milk")
      [] field = "price" -> IF v = Num(2) THEN Num(3) ELSE Num(2)
      [] field = "date" -> IF v = Str("2024-12-05") THEN Str("2024-12-31")
                           ELSE Str("2024-12-05")
      [] OTHER -> IF v = Num(1) THEN Num(4) ELSE Num(1)

\* the payload with one scalar field changed
ScalarChanges(data) ==
    {SetKey(data, k, OtherValue(k, Get(data, k))) : k \in ScalarFields}

\* the payload with one field of one item changed
ItemFieldChanges(data) ==
    LET items == data["items"][2] IN
    {SetKey(data, "items",
            List([items EXCEPT ![i] = SetKey(items[i], f, OtherValue(f, Get(items[i], f)))]))
        : i \in 1..Len(items), f \in ItemFields}

Variations(data) == Reorderings(data) \cup ScalarChanges(data) \cup ItemFieldChanges(data)

\* a submission of the user that has passed the plan check
Submitted(user_id, data) ==
    [op |-> "add_receipt", pc |-> "canonicalize", user_id |-> user_id,
     args |-> [data |-> data], loc |-> <<>>]

InitCanon ==
    /\ plan = [u \in Users |-> "pro"]
    /\ today = Days[1]
    /\ users = StoredUsers
    /\ receipts = {}
    /\ \E d1 \in CanonPayloads : \E d2 \in Variations(d1) :
          req = [p \in Procs |-> IF p = 1 THEN Submitted(1, d1)
                                 ELSE IF p = 2 THEN Submitted(1, d2) ELSE Idle]
    /\ budget = 0
    /\ last = NoResponse

NextCanon ==
    \/ \E p \in Procs : AddCanonicalize(p)
    \/ \E p \in Procs : AddPersist(p)

SpecCanon == InitCanon /\ [][NextCanon]_vars

(***************************************************************************)
(* SpecMixed: one submission that has passed the plan check, its items       *)
(* drawn from items with names and prices of both types, or absent.          *)
(***************************************************************************)
\* an item whose name is a number
Numbered == [name |-> Num(7), price |-> Num(2), quantity |-> Num(1), total |-> Num(2)]

\* an item whose price is a string
MilkQuoted == [name |-> Str("Milk"), price |-> Str("2.50"), total |-> Num(2)]

MixedPool == {Bread, Milk, Unnamed, Numbered, MilkQuoted}

MixedPayloads ==
    {[date |-> Str("2024-12-05"), total |-> Num(5), items |-> List(items)]
        : items \in UNION {[1..n -> MixedPool] : n \in 0..MaxItems}}
      \cup {ReceiptC, [date |-> Str("2024-12-05"), total |-> Num(5), items |-> Null],
            [items |-> List(<<Numbered, Bread>>)]}

InitMixed ==
    /\ plan = [u \in Users |-> "pro"]
    /\ today = Days[1]
    /\ users = StoredUsers
    /\ receipts = {}
    /\ \E d \in MixedPayloads :
          req = [p \in Procs |-> IF p = 1 THEN Submitted(1, d) ELSE Idle]
    /\ budget = 0
    /\ last = NoResponse

SpecMixed == InitMixed /\ [][NextCanon]_vars

(***************************************************************************)
(* SpecEquiv: two submissions of user 1 that have passed the plan check,    *)
(* the second the first with absent fields written as null, its empty item  *)
(* list written another way, or fields added that the canonical form drops. *)
(***************************************************************************)
EquivBases ==
    {[date |-> Str("2024-12-05"), total |-> Num(5)],
     [date |-> Str("2024-12-05"), total |-> Num(5), items |-> List(<<Unnamed>>)],
     [store_name |-> Str("Lidl"), date |-> Str("2024-12-05"), total |-> Num(5),
      items |-> List(<<Bread, MilkNoQty>>)],
     [total |-> Num(5), items |-> List(<<Milk>>)]}

\* the payload with the absent fields among keys present and null
NullFilled(d, keys) == [k \in DOMAIN d \cup keys |-> IF k \in DOMAIN d THEN d[k] ELSE Null]

\* (a) an absent scalar field, or all of them, written as null
ScalarsNulled(d) ==
    {d, NullFilled(d, ScalarFields)} \cup {NullFilled(d, {k}) : k \in ScalarFields}

\* (b) an absent item list written as null or as the empty list; (a) the
\* absent fields of every item written as null
ItemsRewritten(d) ==
    IF "items" \notin DOMAIN d
    THEN {d, SetKey(d, "items", Null), SetKey(d, "items", List(<<>>))}
    ELSE {d, SetKey(d, "items",
                    List([i \in 1..Len(d["items"][2]) |->
                             NullFilled(d["items"][2][i], ItemFields)]))}

\* (c) a field the canonical form has no place for, in the payload or in
\* every item
ExtrasAdded(d) ==
    {d, SetKey(d, "notes", Str("Milk"))} \cup
    (IF "items" \in DOMAIN d /\ IsList(d["items"])
     THEN {SetKey(d, "items",
                  List([i \in 1..Len(d["items"][2]) |->
                           SetKey(d["items"][2][i], "barcode", Num(7))]))}
     ELSE {})

Equivalents(d) ==
    UNION {UNION {ExtrasAdded(d3) : d3 \in ItemsRewritten(d2)} : d2 \in ScalarsNulled(d)}

InitEquiv ==
    /\ plan = [u \in Users |-> "pro"]
    /\ today = Days[1]
    /\ users = StoredUsers
    /\ receipts = {}
    /\ \E d1 \in EquivBases : \E d2 \in Equivalents(d1) \ {d1} :
          req = [p \in Procs |-> IF p = 1 THEN Submitted(1, d1)
                                 ELSE IF p = 2 THEN Submitted(1, d2) ELSE Idle]
    /\ budget = 0
    /\ last = NoResponse

SpecEquiv == InitEquiv /\ [][NextCanon]_vars

(***************************************************************************)
(* Properties of the fingerprint and of the duplicate check.                *)
(***************************************************************************)
\* the fingerprint add_receipt computes for the payload
FingerprintOf(data) == compute_fingerprint(canonicalize_receipt(data))

\* the stored receipts of the user that carry the fingerprint
Mine(rows, user_id, fingerprint) ==
    {r \in rows : r.user_id = user_id /\ r.fingerprint = fingerprint}

\* date and total are present and the date is one strptime parses
ValidPayload(data) ==
    /\ ~IsNull(Get(data, "date"))
    /\ ~IsNull(Get(data, "total"))
    /\ IsStr(data["date"])
    /\ ~BadDateString(data["date"][2])

\* the step answers the submission worker p is serving
AddAnswered(p) ==
    req[p].op = "add_receipt" /\ req[p].pc # "idle" /\ req'[p].pc = "idle"

\* C1: in every reachable state no two stored receipts have the same
\* (user_id, fingerprint) pair, whatever submissions, edits and deletes ran
\* and however they interleaved.
C1_UniqueUserFingerprint ==
    \A r1, r2 \in receipts :
        (r1.user_id = r2.user_id /\ r1.fingerprint = r2.fingerprint) => r1 = r2

\* a submission whose fingerprint the user already holds was refused at commit
C1_Witness ==
    /\ last.op = "add_receipt"
    /\ last.status = 500
    /\ ValidPayload(last.args.data)
    /\ Mine(receipts, last.user_id, FingerprintOf(last.args.data)) # {}

\* C2: a valid submission of a user who holds no receipt with its
\* fingerprint is stored once and answered 201; a submission that finds the
\* user's receipt with its fingerprint at the duplicate query is answered 409
\* and stores nothing; the receipts other users hold with that fingerprint
\* make no difference to either.
C2_SubmitTwice ==
    [][\A p \in Procs :
         (req[p].op = "add_receipt" /\ req'[p] # req[p]
              /\ ValidPayload(req[p].args.data)) =>
            LET u == req[p].user_id
                fp == FingerprintOf(req[p].args.data)
            IN  /\ (req[p].pc = "canonicalize" /\ Mine(receipts, u, fp) # {}) =>
                      /\ req'[p].pc = "idle"
                      /\ last'.status = 409
                      /\ receipts' = receipts
                /\ (req[p].pc = "canonicalize" /\ Mine(receipts, u, fp) = {}) =>
                      /\ req'[p].pc = "persist"
                      /\ receipts' = receipts
                /\ (req[p].pc = "persist" /\ Mine(receipts, u, fp) = {}) =>
                      /\ req'[p].pc = "idle"
                      /\ last'.status = 201
                      /\ receipts \subseteq receipts'
                      /\ Cardinality(receipts' \ receipts) = 1
                      /\ Cardinality(Mine(receipts', u, fp)) = 1
                      /\ \E r \in Mine(receipts', u, fp) : r.id = last'.body.id
      ]_vars

\* user 1 and user 2 each hold ReceiptA once, and user 1's resubmission of
\* it, items reordered, was answered 409
C2_Witness ==
    /\ last.op = "add_receipt"
    /\ last.user_id = 1
    /\ last.args.data = ReceiptAReordered
    /\ last.status = 409
    /\ Cardinality(Mine(receipts, 1, FingerprintOf(ReceiptA))) = 1
    /\ Cardinality(Mine(receipts, 2, FingerprintOf(ReceiptA))) = 1

\* C8 (as stated): when a submission reaches its commit and the user's
\* receipt with its fingerprint has been stored meanwhile, exactly one such
\* receipt stays stored and the submission is answered 409.
C8_RaceLoserGetsConflict ==
    [][\A p \in Procs :
         (AddAnswered(p) /\ req[p].pc = "persist" /\ ValidPayload(req[p].args.data)
              /\ Mine(receipts, req[p].user_id, req[p].loc.fingerprint) # {}) =>
            /\ receipts' = receipts
            /\ Cardinality(Mine(receipts', req[p].user_id, req[p].loc.fingerprint)) = 1
            /\ last'.status = 409
      ]_vars

\* two submissions of one user with one fingerprint have both passed the
\* duplicate query and neither has committed
C8_Witness ==
    \E p, q \in Procs :
        /\ p # q
        /\ req[p].op = "add_receipt" /\ req[p].pc = "persist"
        /\ req[q].op = "add_receipt" /\ req[q].pc = "persist"
        /\ req[p].user_id = req[q].user_id
        /\ req[p].loc.fingerprint = req[q].loc.fingerprint
        /\ ValidPayload(req[p].args.data)
        /\ Mine(receipts, req[p].user_id, req[p].loc.fingerprint) = {}

(***************************************************************************)
(* Properties of the monthly limit.                                         *)
(***************************************************************************)
\* the user's stored receipts dated in the year and month of the day
MonthCount(user_id, day) ==
    Cardinality({r \in receipts : /\ r.user_id = user_id
                                  /\ r.date[1] = day[1]
                                  /\ r.date[2] = day[2]})

\* the step takes a submission of the user and answers it 403
Rejected(u) ==
    /\ budget' = budget - 1
    /\ req' = req
    /\ last'.op = "add_receipt"
    /\ last'.user_id = u
    /\ last'.status = 403

\* the step takes a submission of the user and lets it past the plan check
Admitted(u) ==
    \E p \in Procs :
        req[p].pc = "idle" /\ req'[p].op = "add_receipt" /\ req'[p].user_id = u

\* the step answers a usage query of the user
Counted(u) ==
    /\ budget' = budget - 1
    /\ req' = req
    /\ last'.op = "get_receipt_count"
    /\ last'.user_id = u
    /\ last'.status = 200

\* C3: a submission is answered 403 only for a basic user with the limit or
\* more receipts in the month, and then nothing is stored; it gets past the
\* plan check whenever the user is on pro, whatever the count, or has fewer
\* receipts in the month than the limit; and past the check a valid
\* submission that is no duplicate is stored and answered 201.
C3_QuotaBoundary ==
    [][\A u \in Users :
         /\ Rejected(u) =>
               /\ plan[u] = "basic"
               /\ MonthCount(u, today) >= BASIC_MONTHLY_LIMIT
               /\ receipts' = receipts
         /\ Admitted(u) =>
               plan[u] = "pro" \/ MonthCount(u, today) < BASIC_MONTHLY_LIMIT
         /\ \A p \in Procs :
               (AddAnswered(p) /\ req[p].pc = "persist" /\ req[p].user_id = u
                    /\ ValidPayload(req[p].args.data)
                    /\ Mine(receipts, u, req[p].loc.fingerprint) = {}) =>
                  /\ last'.status = 201
                  /\ Cardinality(receipts') = Cardinality(receipts) + 1
      ]_vars

\* basic user 1 is at the limit and was answered 403, pro user 2 has stored
\* one more receipt above limit + 50
C3_Witness ==
    /\ plan[1] = "basic"
    /\ plan[2] = "pro"
    /\ MonthCount(1, today) = BASIC_MONTHLY_LIMIT
    /\ MonthCount(2, today) = BASIC_MONTHLY_LIMIT + 51
    /\ last.op = "add_receipt"
    /\ last.user_id = 1
    /\ last.status = 403

\* the submissions of the user that are past the plan check and not answered
InFlight(u) ==
    Cardinality({p \in Procs : req[p].op = "add_receipt" /\ req[p].user_id = u})

Before(a, b) ==
    \/ a[1] < b[1]
    \/ a[1] = b[1] /\ a[2] < b[2]
    \/ a[1] = b[1] /\ a[2] = b[2] /\ a[3] < b[3]

\* the first day of the month of the current date
WindowStart == <<today[1], today[2], 1>>

\* the first day of the month after, January of the next year after December
WindowEnd ==
    IF today[2] = 12 THEN <<today[1] + 1, 1, 1>> ELSE <<today[1], today[2] + 1, 1>>

\* the user's stored receipts dated in [WindowStart, WindowEnd)
WindowCount(u) ==
    Cardinality({r \in receipts : /\ r.user_id = u
                                  /\ ~Before(r.date, WindowStart)
                                  /\ Before(r.date, WindowEnd)})

\* C10: whatever the payload of a basic user's submission, it is answered
\* 403 exactly when the user's stored receipts dated from the first day of
\* the current month up to, not including, the first day of the next number
\* the limit or more; the usage query reports that same number.
C10_CalendarMonthWindow ==
    [][\A u \in Users :
         plan[u] = "basic" =>
            /\ Rejected(u) => WindowCount(u) >= BASIC_MONTHLY_LIMIT
            /\ Admitted(u) => WindowCount(u) < BASIC_MONTHLY_LIMIT
            /\ Counted(u) =>
                  last'.body.current_month_receipt_count = Num(WindowCount(u))
      ]_vars

\* in December basic user 1 holds a receipt dated 1 January that does not
\* count and, at the limit, was answered 403 for a receipt dated in November
C10_Witness ==
    /\ today = <<2024, 12, 15>>
    /\ plan[1] = "basic"
    /\ \E r \in receipts : r.user_id = 1 /\ r.date = <<2025, 1, 1>>
    /\ WindowCount(1) = BASIC_MONTHLY_LIMIT
    /\ last.op = "add_receipt"
    /\ last.user_id = 1
    /\ last.args.data = ReceiptB
    /\ last.status = 403

(***************************************************************************)
(* Properties of canonicalize_receipt and compute_fingerprint.              *)
(***************************************************************************)
\* both workers hold the canonical form and fingerprint of their payload
BothCanonical(p, q) ==
    /\ req[p].op = "add_receipt" /\ req[p].pc = "persist"
    /\ req[q].op = "add_receipt" /\ req[q].pc = "persist"

\* t holds the elements of s in some order
IsPermutation(s, t) ==
    /\ Len(s) = Len(t)
    /\ \E f \in Bijections(1..Len(s)) : \A i \in 1..Len(s) : t[i] = s[f[i]]

\* the payloads differ in nothing but the order of their items
DifferOnlyInItemOrder(d1, d2) ==
    /\ \A k \in ScalarFields : Get(d1, k) = Get(d2, k)
    /\ IsPermutation(d1["items"][2], d2["items"][2])

\* C4 (as stated): two payloads that differ only in the order of their items
\* have the same canonical receipt and the same fingerprint.
C4_ReorderDeterminism ==
    \A p, q \in Procs :
        (BothCanonical(p, q)
            /\ DifferOnlyInItemOrder(req[p].args.data, req[q].args.data)) =>
           /\ req[p].loc.canonical = req[q].loc.canonical
           /\ req[p].loc.fingerprint = req[q].loc.fingerprint

\* two payloads that differ only in the order of their items have different
\* fingerprints
C4_Witness ==
    \E p, q \in Procs :
        /\ BothCanonical(p, q)
        /\ DifferOnlyInItemOrder(req[p].args.data, req[q].args.data)
        /\ req[p].loc.fingerprint # req[q].loc.fingerprint

\* the item with exactly the six fields, null for one it lacks
SixFields(item) ==
    [f \in {"name", "quantity", "category", "price", "total", "discount"} |->
        IF f \in DOMAIN item THEN item[f] ELSE Null]

\* C5: the canonical item list holds the six-field reductions of the
\* submitted items, each once, in ascending order of (name or "", price or
\* 0), items of equal key in the order they were submitted in.
C5_StableSortByNamePrice ==
    \A p \in Procs :
        (req[p].op = "add_receipt" /\ req[p].pc = "persist") =>
           LET items == req[p].args.data["items"][2]
               out == req[p].loc.canonical["items"][2]
           IN  /\ Len(out) = Len(items)
               /\ \E f \in Bijections(1..Len(items)) :
                     /\ \A i \in 1..Len(out) : out[i] = SixFields(items[f[i]])
                     /\ \A i, j \in 1..Len(out) :
                           i < j =>
                              /\ ~TupleLt(SortKey(out[j]), SortKey(out[i]))
                              /\ SortKey(out[i]) = SortKey(out[j]) => f[i] < f[j]

\* a list of three items was put in another order, and two different items
\* of equal key in it kept their order
C5_Witness ==
    \E p \in Procs :
        /\ req[p].op = "add_receipt" /\ req[p].pc = "persist"
        /\ LET items == req[p].args.data["items"][2]
               out == req[p].loc.canonical["items"][2]
           IN  /\ Len(items) = 3
               /\ out # [i \in 1..3 |-> SixFields(items[i])]
               /\ \E i, j \in 1..3 :
                     /\ i < j
                     /\ SortKey(items[i]) = SortKey(items[j])
                     /\ SixFields(items[i]) # SixFields(items[j])
                     /\ \E k \in 1..2 :
                           out[k] = SixFields(items[i]) /\ out[k + 1] = SixFields(items[j])

\* the payloads differ in the value of exactly one scalar field
OneScalarChanged(d1, d2) ==
    /\ d1["items"] = d2["items"]
    /\ Cardinality({k \in ScalarFields : Get(d1, k) # Get(d2, k)}) = 1

\* the payloads differ in the value of exactly one field of one item
OneItemFieldChanged(d1, d2) ==
    /\ \A k \in ScalarFields : Get(d1, k) = Get(d2, k)
    /\ Len(d1["items"][2]) = Len(d2["items"][2])
    /\ Cardinality({x \in (1..Len(d1["items"][2])) \X ItemFields :
                       Get(d1["items"][2][x[1]], x[2])
                           # Get(d2["items"][2][x[1]], x[2])}) = 1

\* C6: two payloads that differ in exactly one scalar field, or in exactly
\* one of the six fields of one item, have different canonical receipts and
\* different fingerprints.
C6_Sensitivity ==
    \A p, q \in Procs :
        (BothCanonical(p, q)
            /\ \/ OneScalarChanged(req[p].args.data, req[q].args.data)
               \/ OneItemFieldChanged(req[p].args.data, req[q].args.data)) =>
           /\ req[p].loc.canonical # req[q].loc.canonical
           /\ req[p].loc.fingerprint # req[q].loc.fingerprint

\* the fingerprints of two payloads that differ in one item's discount only,
\* the change moving no item, are different
C6_Witness ==
    \E p, q \in Procs :
        /\ BothCanonical(p, q)
        /\ OneItemFieldChanged(req[p].args.data, req[q].args.data)
        /\ \E i \in 1..Len(req[p].args.data["items"][2]) :
              Get(req[p].args.data["items"][2][i], "discount")
                  # Get(req[q].args.data["items"][2][i], "discount")
        /\ req[p].loc.fingerprint # req[q].loc.fingerprint

(***************************************************************************)
(* Properties of the item edits.                                            *)
(***************************************************************************)
\* the number, zero for a value that is none
NumOrZero(v) == IF IsNum(v) THEN v[2] ELSE 0

RECURSIVE SumOfTotals(_)
SumOfTotals(items) ==
    IF items = <<>> THEN 0
    ELSE NumOrZero(Get(Head(items), "total")) + SumOfTotals(Tail(items))

\* the step commits the accepted price or quantity edit worker p is serving
ItemEditCommitted(p) ==
    /\ req[p].pc = "commit"
    /\ req'[p].pc = "idle"
    /\ last'.status = 200
    /\ \/ req[p].op = "update_item_price"
       \/ req[p].op = "update_receipt_field" /\ req[p].args.item_field = Str("quantity")

\* C7 (as stated): once an accepted price or quantity edit is committed, the
\* edited item's total is its price times its quantity, no other item's
\* total has changed, and the receipt's total is the sum of its items'
\* totals.
C7_EditRecompute ==
    [][\A p \in Procs :
         ItemEditCommitted(p) =>
            LET id == req[p].args.receipt_id
                i == req[p].args.item_index[2] + 1
                before == (CHOOSE r \in receipts : r.id = id).items[2]
                after == CHOOSE r \in receipts' : r.id = id
                edited == after.items[2][i]
            IN  /\ Get(edited, "total")
                     = Num(NumOrZero(Get(edited, "price"))
                              * NumOrZero(Get(edited, "quantity")))
                /\ \A j \in 1..Len(before) :
                      j # i => Get(after.items[2][j], "total") = Get(before[j], "total")
                /\ after.total = Num(SumOfTotals(after.items[2]))
      ]_vars

\* an accepted price or quantity edit was the last request answered and the
\* receipt it edited has a total other than the sum of its items' totals
C7_Witness ==
    /\ last.status = 200
    /\ \/ last.op = "update_item_price"
       \/ last.op = "update_receipt_field" /\ last.args.item_field = Str("quantity")
    /\ \E r \in receipts :
          /\ r.id = last.args.receipt_id
          /\ r.total # Num(SumOfTotals(r.items[2]))

(***************************************************************************)
(* Properties of the outcomes of a submission.                              *)
(***************************************************************************)
\* the step answers a submission: last' is the answer, the unprimed
\* variables are the state the step that answered ran in
AddResponse ==
    \/ budget' = budget - 1 /\ req' = req /\ last'.op = "add_receipt"
    \/ \E p \in Procs : AddAnswered(p)

\* C11 (as stated): a submission is answered 201 with a body of message and
\* id exactly when it adds a receipt, the one with that id; a submission
\* whose fingerprint the user holds when it is answered is answered 409, and
\* none else is; 403 is answered only to a basic user at the limit and has
\* the limit in the body, 400 only when the body is empty or date or total
\* is missing, each with an error body, and none of these changes the table.
C11_DistinctOutcomes ==
    [][AddResponse =>
          LET u == last'.user_id
              data == last'.args.data
              status == last'.status
              body == last'.body
          IN  /\ (status = 201) <=> (receipts' # receipts)
              /\ status = 201 =>
                    /\ DOMAIN body = {"message", "id"}
                    /\ \E r \in receipts' :
                          /\ r.id = body.id
                          /\ r.user_id = u
                          /\ r \notin receipts
                          /\ receipts' = receipts \cup {r}
              /\ status # 201 => DOMAIN body = {"error"}
              /\ status = 409 => Mine(receipts, u, FingerprintOf(data)) # {}
              /\ \A p \in Procs :
                    (AddAnswered(p) /\ Mine(receipts, u, FingerprintOf(data)) # {}) =>
                       status = 409
              /\ status = 403 =>
                    /\ plan[u] = "basic"
                    /\ MonthCount(u, today) >= BASIC_MONTHLY_LIMIT
                    /\ \E i \in DOMAIN body.error :
                          body.error[i] = Num(BASIC_MONTHLY_LIMIT)
              /\ status = 400 =>
                    \/ DOMAIN data = {}
                    \/ IsNull(Get(data, "date"))
                    \/ IsNull(Get(data, "total"))
      ]_vars

\* the signals as far as they hold: all of the above but that every
\* collision is answered 409
C11_SignalsOfTheChecks ==
    [][AddResponse =>
          LET u == last'.user_id
              data == last'.args.data
              status == last'.status
              body == last'.body
          IN  /\ status \in {201, 400, 403, 404, 409, 500}
              /\ (status = 201) <=> (receipts' # receipts)
              /\ status = 201 => DOMAIN body = {"message", "id"}
              /\ status # 201 => DOMAIN body = {"error"}
              /\ status = 409 => Mine(receipts, u, FingerprintOf(data)) # {}
              /\ status = 403 =>
                    /\ plan[u] = "basic"
                    /\ MonthCount(u, today) >= BASIC_MONTHLY_LIMIT
                    /\ body.error[2] = Num(BASIC_MONTHLY_LIMIT)
              /\ status = 400 =>
                    \/ DOMAIN data = {}
                    \/ IsNull(Get(data, "date"))
                    \/ IsNull(Get(data, "total"))
      ]_vars

\* the step takes a submission and answers it at once
FirstAnswer == budget' = budget - 1 /\ req' = req /\ last'.op = "add_receipt"

\* C12: the plan check comes first: a basic user at the limit is answered
\* 403 whatever the payload holds, a stored one or one without date or
\* total, and the first step answers neither 409 nor 201 and answers 400
\* only to an empty body; the duplicate query comes next and answers 409
\* or passes the submission on; the answers for a missing date or total,
\* and the commit, come only from a submission that is past both.
C12_OrderOfChecks ==
    [][/\ \A u \in Users :
             (plan[u] = "basic" /\ MonthCount(u, today) >= BASIC_MONTHLY_LIMIT) =>
                /\ ~Admitted(u)
                /\ (FirstAnswer /\ last'.user_id = u /\ DOMAIN last'.args.data # {}) =>
                      last'.status = 403
       /\ FirstAnswer =>
             /\ last'.status \in {400, 403, 404}
             /\ last'.status = 400 => DOMAIN last'.args.data = {}
       /\ \A p \in Procs :
             (req[p].op = "add_receipt" /\ req[p].pc = "canonicalize"
                  /\ req'[p] # req[p]) =>
                IF Mine(receipts, req[p].user_id, FingerprintOf(req[p].args.data)) # {}
                THEN req'[p].pc = "idle" /\ last'.status = 409
                ELSE req'[p].pc = "persist" /\ last' = last
       /\ \A p \in Procs :
             (AddAnswered(p) /\ last'.status \in {201, 400, 500}) =>
                req[p].pc = "persist"
      ]_vars

\* basic user 1, at the limit, resubmitted a payload of which the receipt
\* is stored and was answered 403
C12_Witness ==
    /\ last.op = "add_receipt"
    /\ last.user_id = 1
    /\ plan[1] = "basic"
    /\ last.status = 403
    /\ ValidPayload(last.args.data)
    /\ Mine(receipts, 1, FingerprintOf(last.args.data)) # {}
    /\ MonthCount(1, today) = BASIC_MONTHLY_LIMIT

(***************************************************************************)
(* Properties of the lifecycle of a stored receipt.                         *)
(***************************************************************************)
\* the ids of the rows
Ids(rows) == {r.id : r \in rows}

\* C13 (as stated): a step that adds a row adds one, and is the commit of a submission
\* that is past the plan check and the duplicate query, of that row's owner,
\* who held no receipt with its fingerprint; a step that removes a row
\* removes one, and is a delete request of the row's owner naming its id,
\* answered 200; no step does both, and every other step, the edits, the
\* rejected submissions and the plan changes among them, leaves the ids of
\* the table as they are.
C13_Lifecycle ==
    [][/\ Ids(receipts') \ Ids(receipts) # {} =>
             /\ Ids(receipts) \subseteq Ids(receipts')
             /\ \E p \in Procs : \E r \in receipts' :
                   /\ AddAnswered(p)
                   /\ req[p].pc = "persist"
                   /\ last'.status = 201
                   /\ receipts' = receipts \cup {r}
                   /\ r.user_id = req[p].user_id
                   /\ r.fingerprint = FingerprintOf(req[p].args.data)
                   /\ Mine(receipts, r.user_id, r.fingerprint) = {}
       /\ Ids(receipts) \ Ids(receipts') # {} =>
             /\ Ids(receipts') \subseteq Ids(receipts)
             /\ \E r \in receipts :
                   /\ receipts' = receipts \ {r}
                   /\ last'.op = "delete_receipt"
                   /\ last'.status = 200
                   /\ last'.args.receipt_id = r.id
                   /\ last'.user_id = r.user_id
       /\ (AddResponse /\ last'.status # 201) => receipts' = receipts
       /\ (last' # last /\ last'.op \in {"update_item_price", "update_receipt_field",
                                         "set_user_plan", "get_receipt_count"}) =>
             Ids(receipts') = Ids(receipts)
      ]_vars

(***************************************************************************)
(* Properties of the scoping of deletes and edits by owner.                 *)
(***************************************************************************)
ScopedOps == {"delete_receipt", "update_item_price", "update_receipt_field"}

\* the step takes up a delete or an edit and answers it at once
ScopedAnswer == budget' = budget - 1 /\ req' = req /\ last'.op \in ScopedOps

\* worker p takes up a delete or an edit and holds on to it
ScopedBegin(p) == budget' = budget - 1 /\ req'[p] # req[p] /\ req'[p].op \in ScopedOps

\* C14 (as stated): a delete, price edit or field edit naming an id under
\* which its caller owns no receipt is answered 404 and leaves the table as
\* it is, and a step that changes or removes a stored receipt belongs to a
\* request of that receipt's owner.
C14_OwnershipScoping ==
    [][/\ ScopedAnswer =>
             ((~\E r \in receipts : r.id = last'.args.receipt_id /\ r.user_id = last'.user_id)
                 => last'.status = 404 /\ receipts' = receipts)
       /\ \A p \in Procs : ScopedBegin(p) =>
             \E r \in receipts : r.id = req'[p].args.receipt_id /\ r.user_id = req'[p].user_id
       /\ \A r \in receipts : r \notin receipts' =>
             \E p \in Procs : /\ req[p].pc # "idle"
                              /\ req'[p].pc = "idle"
                              /\ req[p].user_id = r.user_id
      ]_vars

(***************************************************************************)
(* Properties of the checks of the edits of an item.                        *)
(***************************************************************************)
\* the edits of an item: the price edit, and the field edit that names an
\* item field and no receipt field
ItemEditRequest(op, args) ==
    \/ op = "update_item_price"
    \/ op = "update_receipt_field" /\ IsNull(args.field) /\ ~IsNull(args.item_field)

\* the receipt has no items, or the index is not one of 0..len(items)-1
OutOfRange(row, item_index) ==
    \/ IsNull(row.items)
    \/ row.items = List(<<>>)
    \/ item_index[2] \notin 0..(Len(row.items[2]) - 1)

\* the receipt of the caller that the request names
Named(user_id, args) == {r \in receipts : r.id = args.receipt_id /\ r.user_id = user_id}

\* C15: an edit of an item of a receipt of the caller, with an item_index
\* that is a number outside 0..len(items)-1 or on a receipt without items,
\* is answered 400 in its first step, is never taken up for a commit, and
\* the table stays as it is.
C15_IndexOutOfRange ==
    [][/\ (budget' = budget - 1 /\ req' = req /\ ItemEditRequest(last'.op, last'.args)
             /\ IsNum(last'.args.item_index)
             /\ \E r \in Named(last'.user_id, last'.args) :
                   OutOfRange(r, last'.args.item_index))
          => last'.status = 400 /\ receipts' = receipts
       /\ \A p \in Procs :
            (budget' = budget - 1 /\ req'[p] # req[p]
               /\ ItemEditRequest(req'[p].op, req'[p].args))
            => \A r \in Named(req'[p].user_id, req'[p].args) :
                  ~OutOfRange(r, req'[p].args.item_index)
      ]_vars

\* an edit of an item of the caller's receipt was refused for its index
C15_Witness ==
    /\ ItemEditRequest(last.op, last.args)
    /\ last.status = 400
    /\ IsNum(last.args.item_index)
    /\ last.body.error = "Invalid item index"
    /\ \E r \in Named(last.user_id, last.args) :
          /\ OutOfRange(r, last.args.item_index)
          /\ ~IsNull(r.items) /\ Len(r.items[2]) > 0

\* the value a price or quantity edit carries, Null for the other requests
EditedNumber(op, args) ==
    IF op = "update_item_price" THEN CommaFixed(args.new_price)
    ELSE IF op = "update_receipt_field" /\ IsNull(args.field)
            /\ args.item_field = Str("quantity")
    THEN args.item_value
    ELSE Null

\* the value parses to a positive number
ParsesPositive(v) == ~FloatRaises(v) /\ FloatOf(v) > 0

\* C16 (as stated): a price or quantity edit is taken up for a commit only
\* when its value parses to a positive number; with a zero, negative or
\* non-numeric value it is answered 400 (404 when the caller owns no such
\* receipt) and the table stays as it is.
C16_PositiveOnly ==
    [][/\ \A p \in Procs :
            (budget' = budget - 1 /\ req'[p] # req[p]
               /\ req'[p].op \in {"update_item_price", "update_receipt_field"}
               /\ ~IsNull(EditedNumber(req'[p].op, req'[p].args)))
            => ParsesPositive(EditedNumber(req'[p].op, req'[p].args))
       /\ (budget' = budget - 1 /\ req' = req
             /\ last'.op \in {"update_item_price", "update_receipt_field"}
             /\ ~IsNull(EditedNumber(last'.op, last'.args))
             /\ ~ParsesPositive(EditedNumber(last'.op, last'.args)))
          => last'.status \in {400, 404} /\ receipts' = receipts
      ]_vars

\* a price edit with a price that is not positive was committed
C16_Witness ==
    /\ last.op = "update_item_price"
    /\ last.status = 200
    /\ ~ParsesPositive(CommaFixed(last.args.new_price))
    /\ \E r \in Named(last.user_id, last.args) :
          r.items[2][PyIndex(r.items[2], last.args.item_index[2])].price = Num(0)

(***************************************************************************)
(* Properties of the total of an edited receipt.                            *)
(***************************************************************************)
\* the step commits an edit with the answer 200
EditAccepted ==
    /\ last'.op \in {"update_item_price", "update_receipt_field"}
    /\ last'.status = 200
    /\ \E p \in Procs : req[p].pc = "commit" /\ req'[p].pc = "idle"

\* C17 (as stated): once an edit of a receipt is accepted, of its store name,
\* date or store category or of the name, quantity, category or price of one
\* item, the receipt's total is the sum of its items' totals, a missing or
\* non-numeric one counted as zero.
C17_EveryEditRecomputes ==
    [][EditAccepted =>
          \A r \in receipts' :
             r.id = last'.args.receipt_id => r.total = Num(SumOfTotals(r.items[2]))
      ]_vars

\* an edit of the store name was accepted and the total is not the sum
C17_Witness ==
    /\ last.op = "update_receipt_field"
    /\ last.status = 200
    /\ last.args.field = Str("store_name")
    /\ \E r \in Named(last.user_id, last.args) :
          /\ r.store_name = Str("Aldi")
          /\ r.total # Num(SumOfTotals(r.items[2]))

(***************************************************************************)
(* Properties of the plan column.                                           *)
(***************************************************************************)
\* the operations that may assign a user's plan
PlanWriters == {"set_user_plan", "complete_subscription_payment", "stripe_webhook"}

\* C18: every user's plan is 'basic' or 'pro' in every reachable state; a
\* step that changes a plan is the answer of the set-plan override, of a
\* payment completion or of the billing webhook, and changes the plan of the
\* one user it names; the steps of add_receipt, delete_receipt,
\* update_item_price, update_receipt_field and get_receipt_count leave every
\* plan as it is.
C18_PlanReadOnly ==
    /\ [](\A u \in Users : plan[u] \in {"basic", "pro"})
    /\ [][/\ plan' # plan =>
                /\ budget' = budget - 1
                /\ req' = req
                /\ last'.op \in PlanWriters
                /\ last'.status = 200
                /\ \E u \in Users : \A v \in Users \ {u} : plan'[v] = plan[v]
          /\ ((last' # last \/ req' # req) /\ last'.op \notin PlanWriters
                /\ \A p \in Procs : req'[p] # req[p] => req'[p].op \notin PlanWriters)
             => plan' = plan
         ]_vars

\* the count query answered a basic user at the limit once the run's
\* requests were used up, and the user is basic still
C18_Witness ==
    /\ last.op = "get_receipt_count"
    /\ last.status = 200
    /\ last.body.user_plan = "basic"
    /\ last.body.current_month_receipt_count = Num(BASIC_MONTHLY_LIMIT)
    /\ plan[last.user_id] = "basic"
    /\ budget = 0

(***************************************************************************)
(* Properties of the outcomes of canonicalize_receipt.                      *)
(***************************************************************************)
\* C19 (as stated): the canonicalize step of a submission has no error
\* outcome: whatever the payload, it ends in the answer 409 of the
\* duplicate query or hands the canonical receipt on to the persist step.
C19_NoErrorOutcome ==
    [][\A p \in Procs :
          (req[p].pc = "canonicalize" /\ req'[p] # req[p]) =>
             \/ req'[p].pc = "persist"
             \/ req'[p].pc = "idle" /\ last'.status = 409
      ]_vars

\* a submission whose items carry a number and a string as names ended in
\* the canonicalize step with the answer 500
C19_Witness ==
    /\ last.op = "add_receipt"
    /\ last.status = 500
    /\ receipts = {}
    /\ \E i, j \in 1..Len(ItemsOrEmpty(last.args.data)) :
          /\ IsNum(Get(ItemsOrEmpty(last.args.data)[i], "name"))
          /\ IsStr(Get(ItemsOrEmpty(last.args.data)[j], "name"))

(***************************************************************************)
(* Properties of the required fields of a submission.                       *)
(***************************************************************************)
\* the payload has no date or no total: the key is absent or its value null
LacksRequired(data) == IsNull(Get(data, "date")) \/ IsNull(Get(data, "total"))

\* the date column of the row holds a date: year, month and day
HasDate(r) == Len(r.date) = 3

\* the step is the persist step of worker p
Persisted(p) == req[p].op = "add_receipt" /\ req[p].pc = "persist" /\ req'[p].pc = "idle"

\* the checks of a submission at its persist step: a payload without date or
\* total is answered 400 and nothing is stored; a row that is stored has the
\* date parsed from the payload and the payload's total, both not null
RequiredAtPersist ==
    \A p \in Procs : Persisted(p) =>
       /\ LacksRequired(req[p].args.data) => last'.status = 400 /\ receipts' = receipts
       /\ \A r \in receipts' \ receipts :
             /\ ~LacksRequired(req[p].args.data)
             /\ r.total = req[p].args.data.total
             /\ r.date = DateOf[req[p].args.data.date[2]]

C21_ItemsAsSubmitted ==
    [][\A p \in Procs : (AddAnswered(p) /\ last'.status = 201) =>
          \E r \in receipts' \ receipts :
             /\ r.id = last'.body.id
             /\ r.items = Get(req[p].args.data, "items")
             /\ r.fingerprint = FingerprintOf(req[p].args.data)
      ]_vars

\* the payload with Milk before Bread was stored, and the price edit of
\* item 0 changed Milk, the first item submitted, not Bread, the first of
\* the canonical order
C21_Witness ==
    /\ last.op = "update_item_price"
    /\ last.status = 200
    /\ last.args.item_index = Num(0)
    /\ \E r \in receipts :
          /\ r.id = last.args.receipt_id
          /\ r.fingerprint = FingerprintOf(ReceiptAReordered)
          /\ Len(r.items[2]) = 2
          /\ r.items[2][1].name = Str("Milk")
          /\ r.items[2][1].price = Num(5)
          /\ r.items[2][2] = Bread

(***************************************************************************)
(* Properties of concurrent edits of one receipt.                           *)
(***************************************************************************)
\* C22 (as stated): edits of the items of one receipt take effect one after
\* the other: the commit of an accepted item edit changes the item it names
\* and leaves every other item as the table holds it at that moment, with
\* the total the sum of the items' totals, so that no edit committed before
\* it is lost.
C22_EditsSerializable ==
    [][\A p \in Procs :
          (/\ req[p].pc = "commit"
           /\ req'[p].pc = "idle"
           /\ req[p].op \in {"update_item_price", "update_receipt_field"}
           /\ ItemEditRequest(req[p].op, req[p].args)
           /\ last'.status = 200)
          => \A r \in receipts : \A t \in receipts' :
                (r.id = req[p].args.receipt_id /\ t.id = r.id) =>
                   /\ \A k \in 1..Len(r.items[2]) :
                         k # PyIndex(r.items[2], req[p].args.item_index[2])
                            => t.items[2][k] = r.items[2][k]
                   /\ t.total = Num(SumOfTotals(t.items[2]))
      ]_vars

(***************************************************************************)
(* Properties of payloads that differ in absent and null fields only.       *)
(***************************************************************************)
\* the value of the field, null when the payload or item has none
FieldOrNull(d, k) == IF k \in DOMAIN d THEN d[k] ELSE Null

\* the items of the payload, none when the list is absent, null or empty
ItemsOrNone(d) ==
    IF "items" \in DOMAIN d /\ IsList(d["items"]) THEN d["items"][2] ELSE <<>>

\* the payloads agree on the seven scalar fields and, item by item in the
\* same order, on the six item fields, absent counting as null and an absent
\* or null item list as empty
SameCanonicalContent(d1, d2) ==
    /\ \A k \in {"store_category", "store_name", "date", "total", "currency",
                 "tax_amount", "total_discount"} : FieldOrNull(d1, k) = FieldOrNull(d2, k)
    /\ Len(ItemsOrNone(d1)) = Len(ItemsOrNone(d2))
    /\ \A i \in 1..Len(ItemsOrNone(d1)) :
          \A f \in {"name", "quantity", "category", "price", "total", "discount"} :
             FieldOrNull(ItemsOrNone(d1)[i], f) = FieldOrNull(ItemsOrNone(d2)[i], f)

\* C23: two payloads that differ only in absent against null fields, in an
\* absent, null or empty item list, or in fields outside the seven and the
\* six have the same canonical receipt and fingerprint, and once the user
\* holds the receipt of one, the duplicate query of a submission of the
\* other answers 409.
C23_AbsentNullExtra ==
    /\ [](\A p, q \in Procs :
             (BothCanonical(p, q)
                 /\ SameCanonicalContent(req[p].args.data, req[q].args.data)) =>
                /\ req[p].loc.canonical = req[q].loc.canonical
                /\ req[p].loc.fingerprint = req[q].loc.fingerprint)
    /\ [][\A p \in Procs :
             (/\ req[p].op = "add_receipt"
              /\ req[p].pc = "canonicalize"
              /\ req'[p] # req[p]
              /\ last.op = "add_receipt"
              /\ last.status = 201
              /\ SameCanonicalContent(req[p].args.data, last.args.data)
              /\ \E r \in receipts : r.id = last.body.id /\ r.user_id = req[p].user_id)
             => last'.status = 409 /\ receipts' = receipts
         ]_vars

\* the receipt of one payload is stored and the submission of a different
\* payload of the same canonical content was answered 409
C23_Witness ==
    /\ last.op = "add_receipt"
    /\ last.status = 409
    /\ \E r \in receipts :
          /\ r.user_id = last.user_id
          /\ r.items # Get(last.args.data, "items")
          /\ r.fingerprint = FingerprintOf(last.args.data)
    /\ "notes" \in DOMAIN last.args.data

(***************************************************************************)
(* Properties of set_user_plan.                                             *)
(***************************************************************************)
\* the step answers a set-plan request
PlanAnswered == budget' = budget - 1 /\ req' = req /\ last'.op = "set_user_plan"

\* C24: a set-plan request of a user asking for 'basic' or 'pro' is answered
\* 200 and leaves that user on the plan asked for; a request without plan or
\* asking for another value is answered 400 and changes no plan; no
\* set-plan request changes the plan of another user or a receipt.
C24_SetPlan ==
    [][PlanAnswered =>
          LET data == last'.args.data
              u == last'.user_id
              asked == IF "plan" \in DOMAIN data THEN data["plan"] ELSE Null
          IN  /\ receipts' = receipts
              /\ \A v \in Users \ {u} : plan'[v] = plan[v]
              /\ (asked \in {Str("basic"), Str("pro")} /\ u \in Users) =>
                    last'.status = 200 /\ plan'[u] = asked[2]
              /\ asked \notin {Str("basic"), Str("pro")} =>
                    last'.status = 400 /\ plan' = plan
      ]_vars

\* user 1 asked for 'basic' and is on it while user 2 is on 'pro' and the
\* receipts are in place
C24_Witness ==
    /\ last.op = "set_user_plan"
    /\ last.user_id = 1
    /\ last.status = 200
    /\ last.args.data = [plan |-> Str("basic")]
    /\ plan = <<"basic", "pro">>
    /\ receipts # {}

(***************************************************************************)
(* Properties of the plan transitions of the webhook.                       *)
(***************************************************************************)
\* the plan the event stands for, "" when it is not a plan-changing one
PlanOfEvent(event) ==
    IF \/ event[1] \in {"customer.subscription.deleted", "invoice.payment_failed"}
       \/ event[1] = "customer.subscription.updated" /\ event[2] = "past_due"
    THEN "basic"
    ELSE IF \/ event[1] = "invoice.payment_succeeded"
            \/ event[1] = "customer.subscription.created" /\ event[2] = "trialing"
    THEN "pro"
    ELSE ""

\* C25 (as stated): once the webhook has processed an event naming a user,
\* that user's plan is 'basic' after deleted, payment_failed and updated
\* with status past_due, 'pro' after payment_succeeded and created with
\* status trialing, and what it was after every other event; the plan of
\* every other user is what it was.
C25_WebhookTransitions ==
    [][(budget' = budget - 1 /\ req' = req /\ last'.op = "stripe_webhook") =>
          LET event == last'.args.event
              u == last'.args.user_id
          IN  /\ \A v \in Users \ {u} : plan'[v] = plan[v]
              /\ u \in Users =>
                    plan'[u] = IF PlanOfEvent(event) = "" THEN plan[u]
                               ELSE PlanOfEvent(event)
      ]_vars

\* the webhook processed the cancellation of a user's subscription and the
\* user is on 'pro'
C25_Witness ==
    /\ last.op = "stripe_webhook"
    /\ last.status = 200
    /\ last.args.event[1] = "customer.subscription.deleted"
    /\ last.args.user_id \in Users
    /\ plan[last.args.user_id] = "pro"

(***************************************************************************)
(* Properties of the fingerprint under edits.                               *)
(***************************************************************************)
\* the step is one of an edit handler
EditStep ==
    \E p \in Procs :
        /\ req'[p] # req[p]
        /\ \/ req[p].op \in {"update_item_price", "update_receipt_field"}
           \/ req'[p].op \in {"update_item_price", "update_receipt_field"}

\* the stored receipt holds what a submission of the payload would store
Shows(r, data) ==
    /\ ValidPayload(data)
    /\ r.store_category = Get(data, "store_category")
    /\ r.store_name = Get(data, "store_name")
    /\ r.date = DateOf[data["date"][2]]
    /\ r.total = Get(data, "total")
    /\ r.tax_amount = Get(data, "tax_amount")
    /\ r.total_discount = Get(data, "total_discount")
    /\ r.items = Get(data, "items")

\* C26: no step of an edit handler adds or removes a receipt or changes the
\* fingerprint or the owner of one; so the duplicate check of a submission
\* answers by the fingerprints the receipts were stored with: a payload whose
\* fingerprint a receipt of the user carries is answered 409 although no
\* receipt of the user shows its content any more, and a payload whose
\* content a receipt of the user shows after an edit, but whose fingerprint
\* none carries, passes the duplicate check.
C26_EditsKeepFingerprint ==
    /\ [][EditStep =>
             /\ {r.id : r \in receipts'} = {r.id : r \in receipts}
             /\ \A r \in receipts, s \in receipts' :
                   r.id = s.id => s.fingerprint = r.fingerprint /\ s.user_id = r.user_id
         ]_vars
    /\ [][\A p \in Procs :
             (req[p].op = "add_receipt" /\ req[p].pc = "canonicalize" /\ req'[p] # req[p]) =>
                LET u == req[p].user_id
                    d == req[p].args.data
                    mine == {r \in receipts : r.user_id = u}
                IN  /\ ((\E r \in mine : r.fingerprint = FingerprintOf(d))
                            /\ ~\E r \in mine : Shows(r, d)) =>
                          req'[p].pc = "idle" /\ last'.status = 409 /\ receipts' = receipts
                    /\ ((\E r \in mine : Shows(r, d))
                            /\ ~\E r \in mine : r.fingerprint = FingerprintOf(d)) =>
                          req'[p].pc = "persist"
         ]_vars

\* user 1's receipt 1, stored from ReceiptA, was edited and shows what
\* ReceiptAEdited says; the submission of ReceiptAEdited was stored beside it
C26_Witness ==
    /\ last.op = "add_receipt"
    /\ last.user_id = 1
    /\ last.args.data = ReceiptAEdited
    /\ last.status = 201
    /\ \E r \in receipts :
          /\ r.id = 1
          /\ r.fingerprint = FingerprintOf(ReceiptA)
          /\ Shows(r, ReceiptAEdited)
    /\ \E r \in receipts : r.id = last.body.id /\ r.id # 1 /\ Shows(r, ReceiptAEdited)

(***************************************************************************)
(* Properties of what a delete releases.                                    *)
(***************************************************************************)
\* the step commits the delete worker p is serving
DeleteCommitted(p) ==
    req[p].op = "delete_receipt" /\ req[p].pc = "commit" /\ req'[p].pc = "idle"

\* C27: the commit of a delete is answered 200 and takes the row it loaded
\* out of the table and no other: the owner then holds no receipt with that
\* row's fingerprint, and holds one receipt less in the current month when
\* the row was dated in it.  The checks of a submission look at the rows in
\* the table only: it is answered 403 only when the basic user holds the
\* limit or more there, and 409 only when the user holds its fingerprint
\* there.
C27_DeleteReleases ==
    /\ [][\A p \in Procs :
             DeleteCommitted(p) =>
                LET r == req[p].loc.loaded
                    u == r.user_id
                IN  /\ last'.status = 200
                    /\ receipts' = {s \in receipts : s.id # r.id}
                    /\ r \in receipts =>
                          /\ receipts' = receipts \ {r}
                          /\ Mine(receipts', u, r.fingerprint) = {}
                          /\ CurrentMonthCount(receipts', u, today) =
                                CurrentMonthCount(receipts, u, today)
                                   - (IF r \in CurrentMonthRows(receipts, u, today)
                                      THEN 1 ELSE 0)
         ]_vars
    /\ [][\A u \in Users :
             /\ Rejected(u) =>
                   CurrentMonthCount(receipts, u, today) >= BASIC_MONTHLY_LIMIT
             /\ \A p \in Procs :
                   (AddAnswered(p) /\ req[p].user_id = u /\ last'.status = 409) =>
                      Mine(receipts, u, FingerprintOf(req[p].args.data)) # {}
         ]_vars

\* basic user 1, at the limit, deleted the receipt stored for ReceiptA and
\* submitted ReceiptA again: it was stored under a new id and the user is at
\* the limit again
C27_Witness ==
    /\ plan[1] = "basic"
    /\ last.op = "add_receipt"
    /\ last.user_id = 1
    /\ last.args.data = ReceiptA
    /\ last.status = 201
    /\ CurrentMonthCount(receipts, 1, today) = BASIC_MONTHLY_LIMIT
    /\ \E r \in Mine(receipts, 1, FingerprintOf(ReceiptA)) :
          r.id = last.body.id /\ r.id # 1

(***************************************************************************)
(* Properties of the monthly limit under requests served one at a time.     *)
(***************************************************************************)
\* C28: when the submissions and deletes of a month are served one after the
\* other, with no edit of a date and no change of plan, a basic user who
\* starts with at most the limit of receipts dated in the month never holds
\* more than the limit of them.
C28_SerialWithinLimit ==
    \A u \in Users :
        plan[u] = "basic" => MonthCount(u, today) <= BASIC_MONTHLY_LIMIT

\* user 1 started at the limit, deleted the oldest receipt, and the
\* submission after it was stored: the user holds the limit again
C28_Witness ==
    /\ Quiet
    /\ last.op = "add_receipt"
    /\ last.user_id = 1
    /\ last.status = 201
    /\ MonthCount(1, today) = BASIC_MONTHLY_LIMIT
    /\ \E r \in receipts : r.id = BASIC_MONTHLY_LIMIT + 1
    /\ ~\E r \in receipts : r.id = 1

(***************************************************************************)
(* Properties of registration, confirmation and login.                      *)
(***************************************************************************)
\* the step answers a request to the operation in the handler's first step
Answered(op) == budget' = budget - 1 /\ req' = req /\ last'.op = op

\* the body carries an e-mail and a password that are not empty
CredentialsGiven(data) ==
    /\ "email" \in DOMAIN data /\ "password" \in DOMAIN data
    /\ IsStr(data["email"]) /\ IsStr(data["password"])
    /\ StripLower(data["email"][2]) # "" /\ data["password"][2] # ""

\* the users whose e-mail and password the body carries
Matching(data) ==
    {i \in DOMAIN users :
        /\ users[i].email = StripLower(data["email"][2])
        /\ users[i].password_hash = <<"pbkdf2:sha256", data["password"][2]>>}

\* C29: a registration that is stored adds one user, with plan 'basic' and
\* email_verified false, and changes no other; a login that gives an e-mail
\* and a password is answered 200 with a token when they are those of a user
\* whose email_verified is true, 403 without token when they are those of a
\* user whose email_verified is false, and 401 without token when they are
\* those of no user, whatever email_verified says; no login is answered with
\* a token otherwise; and email_verified turns true only in a step of
\* confirm_email answered 200 for a token signed with the secret, not
\* expired, that names the user's e-mail.
C29_LoginGatedOnVerification ==
    /\ [][Len(users') # Len(users) =>
             /\ \E p \in Procs : req[p].op = "register" /\ req'[p].pc = "idle"
             /\ Len(users') = Len(users) + 1
             /\ \A i \in DOMAIN users : users'[i] = users[i] /\ plan'[i] = plan[i]
             /\ ~users'[Len(users')].email_verified
             /\ Len(plan') = Len(users')
             /\ plan'[Len(users')] = "basic"
         ]_vars
    /\ [][Answered("login") =>
             LET data == last'.args.data
                 token == "token" \in DOMAIN last'.body
             IN  /\ token <=> last'.status = 200
                 /\ token => CredentialsGiven(data)
                 /\ CredentialsGiven(data) =>
                       /\ (\E i \in Matching(data) : users[i].email_verified) =>
                             last'.status = 200
                       /\ (\E i \in Matching(data) : ~users[i].email_verified) =>
                             last'.status = 403
                       /\ Matching(data) = {} => last'.status = 401
         ]_vars
    /\ [][\A i \in DOMAIN users :
             (users'[i].email_verified /\ ~users[i].email_verified) =>
                /\ Answered("confirm_email")
                /\ last'.status = 200
                /\ last'.args.token.key = "JWT_SECRET"
                /\ last'.args.token.exp = NoExp \/ DateLt(today, last'.args.token.exp)
                /\ last'.args.token.email = Str(users[i].email)
         ]_vars

\* a user registered as " Ann@X.io" or reset the password, the e-mail was
\* confirmed, and the login with that e-mail and password was given a token
C29_Witness ==
    /\ last.op = "login"
    /\ last.status = 200
    /\ last.args.data = [email |-> Str(" Ann@X.io"), password |-> Str("hunter2")]
    /\ \E i \in DOMAIN users :
          /\ users[i].email = "ann@x.io"
          /\ users[i].email_verified
          /\ plan[i] = "basic"
          /\ last.body.token.email = Str("ann@x.io")

(***************************************************************************)
(* Properties of the password reset request.                                *)
(***************************************************************************)
\* C30: every request for a password reset is answered 200 with
\* {success: true}, whether the e-mail it carries is that of a user, of no
\* user, or missing, so the answer is the same in two runs that differ in
\* that alone; and the request changes no user row, no plan and no receipt.
C30_ResetRevealsNothing ==
    [][Answered("request_password_reset") =>
          /\ last'.status = 200
          /\ last'.body = [success |-> TRUE]
          /\ users' = users
          /\ plan' = plan
          /\ receipts' = receipts
      ]_vars

\* the reset was requested for ann@x.io, a registered user, and answered
C30_Witness ==
    /\ last.op = "request_password_reset"
    /\ last.status = 200
    /\ last.args.data = [email |-> Str("ann@x.io")]
    /\ \E i \in DOMAIN users : users[i].email = "ann@x.io"

=============================================================================
